---- MODULE Spec2Model ----
(***************************************************************************)
(* Boulder: the concurrent in-memory write path (arena, skiplist,          *)
(* memtable).  Threads are goroutines; every atomic load, store, fetch-add *)
(* and compare-and-swap of the code is one step of the model.              *)
(***************************************************************************)
EXTENDS Integers, Naturals, Sequences, FiniteSets, Bags, TLC

\* ------------------------------------------------------------------ bounds
\* Number of goroutines.
NumProcs == 2
\* Calls each goroutine makes.
MaxOps == 2
\* Arena.New(size) of the arena-only specification, and its overflow.
ArenaBufLen == 12
ArenaOverflow == 2
\* Largest size passed to Allocate, largest log2 of an alignment.
MaxAllocSize == 2
MaxAlignLog == 2
\* Arena.Reset calls.
MaxResets == 1
\* Skiplist.Add calls made in all.
MaxAdds == 3
\* The size given to skiplist.New.
SklArenaSize == 2048
\* Tallest tower randomHeight draws, largest key byte, sequence number, value byte.
MaxH == 2
MaxByte == 1
MaxSeq == 2
MaxValue == 1
MaxMemValue == 2   \* values of the records given to MemTable.Add
MaxReaderAdds == 2 \* Skiplist.Add calls made while a reader iterates
MaxPasses == 2     \* passes (First or Last, then Next or Prev) a reader makes
MaxArenaLen == 800 \* largest size given to NewArena before newNode is called on its own
MaxNodeCalls == 2  \* newNode calls made on one such arena
MaxNodeBytes == 1  \* largest key size and value size given to these calls

MaxInserts == 2    \* MemTable.Add calls in a behaviour
MaxDBCalls == 3    \* DB.Set and DB.Delete calls in a behaviour
MaxBlocks == 3     \* largest size given to memtable.New, in blocks
MaxFlushes == 2    \* MemTable.Flush calls in a behaviour
MaxReleases == 2   \* MemTable.ReleaseArena calls in a behaviour
UintBits == 16     \* width of arch.AtomicUint and of InternalKeyTrailer, scaled down from 64
FullArenaSize == 840  \* arena size of the memtable that runs full: room for two nodes of height 1
LargeValueLen == 80   \* length of a value that no arena of FullArenaSize bytes has room for

\* ------------------------------------------------------- program constants
maxHeight == 20
nodeSize == 352
linksSize == 16
nodeAlignment == 8
InternalKeyKindSet == 1
maxNodeSize == 360

Procs == 1..NumProcs

\* ------------------------------------------------------------------ state
VARIABLES
    position,   \* Arena.position, the atomic watermark
    buffer,     \* len(Arena.buffer)
    overflow,   \* Arena.overflow
    pc,         \* per goroutine: the statement it is about to execute
    ops,        \* per goroutine: calls completed
    alloc,      \* per goroutine: the frame of Arena.Allocate
    head,       \* Skiplist.head, an arena offset (0 is nil)
    tail,       \* Skiplist.tail
    height,     \* Skiplist.height, atomic
    nodes,      \* the immutable fields of the nodes laid out in the arena, by offset
    tower,      \* node.tower: offset -> level -> [next, prev], atomic offsets
    add,        \* per goroutine: the frame of Skiplist.addInternal and its Inserter
    sklArena,   \* Skiplist.arena: "arena", or "nil" once released
    memSeqNum,  \* MemTable.seqNum
    references, \* MemTable.references, atomic
    writers,    \* MemTable.writers, the WaitGroup counter
    readOnly,   \* MemTable.readOnly, atomic
    fl,         \* the goroutines spawned by Flush, by the statement they are at
    mem,        \* per goroutine: the frame of the MemTable call it is in
    flushes,    \* history: calls of Flush
    handoffs,   \* history: invocations of the flush callback
    decrements, \* history: references.Add(-1) by a flush goroutine
    releases,   \* history: the ReleaseArena calls that have returned
    it,         \* the FlushIterator handed to the flush callback
    emitted,    \* history: the key-value pairs the FlushIterator has returned
    rd,         \* the Iterator made by Skiplist.Iter for a reader
    pass,       \* history: the reader's current pass over the list, and what it returned
    hookRuns,   \* history: runs of the close hook given to Skiplist.Iter
    fn,         \* a call of a function checked on its own: its inputs and its result
    returned,   \* history: the bag of (key, result, had a CAS fail) of the Add calls that have returned
    allocs,     \* history: the successful allocations since the last Reset
    fullSeen,   \* history: Allocate calls that returned ErrArenaFull since the last Reset
    resets      \* history: number of Reset calls

arenaVars == <<position, buffer, overflow>>
sklVars == <<head, tail, height, nodes, tower>>
histVars == <<allocs, fullSeen, resets>>
memVars == <<sklArena, memSeqNum, references, writers, readOnly, fl, mem, flushes, handoffs,
             decrements, releases>>
iterVars == <<it, emitted>>
readerVars == <<rd, pass, hookRuns>>
vars == <<position, buffer, overflow, pc, ops, alloc, head, tail, height, nodes, tower,
          add, returned, allocs, fullSeen, resets, sklArena, memSeqNum, references, writers,
          readOnly, fl, mem, flushes, handoffs, decrements, releases, it, emitted, rd, pass,
          hookRuns, fn>>

NoAlloc == [size |-> 0, alignment |-> 1, offset |-> 0, err |-> "none", caller |-> "none"]

\* ------------------------------------------------------------ internal keys
\* base.MakeTrailer: (seqNum << 8) | kind, for kind < 256.
\* The trailer with the sequence number shifted by one bit less.
MakeTrailerShort(seqNum, kind) == ((seqNum * 128) % 2^UintBits) + kind

\* base.MakeTrailer: "(InternalKeyTrailer(seqNum) << 8) | InternalKeyTrailer(kind)",
\* in a word of UintBits bits; kind is a uint8, so the or is an addition.
MakeTrailer(seqNum, kind) == ((seqNum * 256) % 2^UintBits) + kind

\* InternalKeyTrailer.SeqNum, "t >> 8", and InternalKeyTrailer.Kind, "t & 0xff".
TrailerSeqNum(t) == t \div 256
Kind(t) == t % 256

UserKeys == {<<>>} \cup {<<b>> : b \in 1..MaxByte}
Trailers == {MakeTrailer(s, InternalKeyKindSet) : s \in 1..MaxSeq}
Keys == [LogicalKey : UserKeys, Trailer : Trailers]
Values == {<<v>> : v \in 1..MaxValue}
MemValues == {<<v>> : v \in 1..MaxMemValue}

\* The comparator handed to the skiplist: bytes.Compare, -1, 0 or 1.
RECURSIVE cmp(_, _)
cmp(a, b) ==
    IF a = <<>> THEN (IF b = <<>> THEN 0 ELSE -1)
    ELSE IF b = <<>> THEN 1
    ELSE IF Head(a) < Head(b) THEN -1
    ELSE IF Head(a) > Head(b) THEN 1
    ELSE cmp(Tail(a), Tail(b))

NoSplice == [prev |-> 0, next |-> 0]
\* "var ins Inserter": the zero Inserter of Skiplist.Add.
ZeroInserter == [spl |-> [i \in 0..(maxHeight - 1) |-> NoSplice], height |-> 0]
NoKey == [LogicalKey |-> <<>>, Trailer |-> 0]
NoAdd == [key |-> NoKey, value |-> <<>>, ins |-> ZeroInserter, level |-> 0, prev |-> 0,
          next |-> 0, found |-> FALSE, invalidateSplice |-> FALSE, i |-> 0, nd |-> 0,
          height |-> 0, listHeight |-> 0, nextPrevOffset |-> 0, retry |-> FALSE,
          err |-> "none", caller |-> "none", backFailed |-> FALSE]

NoIterator == [state |-> "none", nd |-> 0, K |-> NoKey, V |-> <<>>]
\* A nil []byte bound, and the zero Iterator.
NoBound == [set |-> FALSE, key |-> <<>>]
NoReader == [state |-> "none", nd |-> 0, lower |-> NoBound, upper |-> NoBound,
             lowerNode |-> 0, upperNode |-> 0, K |-> NoKey, V |-> <<>>]
NoPass == [dir |-> "none", kvs |-> <<>>, before |-> {}, ended |-> FALSE, count |-> 0,
           lower |-> NoBound, upper |-> NoBound, idle |-> FALSE, calls |-> 0]
NoCall == [op |-> "none"]
NoMem == [op |-> "none", late |-> FALSE, refs |-> 0, arena |-> "nil"]
NoFlush == [waiting |-> 0, ready |-> 0, flushing |-> 0]

\* No reader has asked for an Iterator.
NoReaders ==
    /\ rd = NoReader
    /\ pass = NoPass
    /\ hookRuns = 0

\* No memtable has been built around the arena or the skiplist.
NoMemTable ==
    /\ sklArena = "arena"
    /\ memSeqNum = 0
    /\ references = 0
    /\ writers = 0
    /\ readOnly = FALSE
    /\ fl = NoFlush
    /\ mem = [t \in Procs |-> NoMem]
    /\ flushes = 0
    /\ handoffs = 0
    /\ decrements = 0
    /\ releases = <<>>
    /\ it = NoIterator
    /\ emitted = <<>>
    /\ NoReaders

\* ------------------------------------------------------------------ Arena
Pow2(n) == IF n = 0 THEN 1 ELSE IF n = 1 THEN 2 ELSE IF n = 2 THEN 4 ELSE 8

Alignments == {Pow2(n) : n \in 0..MaxAlignLog}

\* x & ^(alignment - 1), for alignment a power of two: clear the low bits.
AlignDown(x, alignment) == x - (x % alignment)

\* The reserved range rounded down instead of up: the start of the reservation.
AlignedOffsetRoundDown(pos, padded, alignment) ==
    AlignDown(pos - padded, alignment)

\* Arena.Allocate: "offset = (position - padded + alignment) & ^(alignment - 1)".
AlignedOffset(pos, padded, alignment) ==
    AlignDown(pos - padded + alignment, alignment)

\* The fullness test with the boundary byte counted as full.
ArenaIsFullAtLimit(pos) == pos >= buffer - overflow

\* Arena.Allocate: the fullness test, before and after the fetch-add.
ArenaIsFull(pos) == pos > buffer - overflow

\* Arena.Len and Arena.Cap.
ArenaLen == position - 1
ArenaCap == buffer - overflow - 1

\* Allocate, first statement: load the watermark and reject early.
AllocLoad(t) ==
    /\ pc[t] = "Allocate"
    /\ IF ArenaIsFull(position)
       THEN /\ alloc' = [alloc EXCEPT ![t].offset = 0, ![t].err = "ErrArenaFull"]
            /\ pc' = [pc EXCEPT ![t] = "AllocateRet"]
            /\ fullSeen' = fullSeen + 1
       ELSE /\ pc' = [pc EXCEPT ![t] = "AllocateAdd"]
            /\ UNCHANGED <<alloc, fullSeen>>
    /\ UNCHANGED <<arenaVars, ops, allocs, resets, sklVars, add, returned>>
    /\ UNCHANGED <<memVars, iterVars, readerVars, fn>>

\* Allocate, the fetch-add and everything after it (all local).
AllocAdd(t) ==
    /\ pc[t] = "AllocateAdd"
    /\ LET padded == alloc[t].size + alloc[t].alignment - 1
           new == position + padded
       IN  /\ position' = new
           /\ IF ArenaIsFull(new)
              THEN /\ alloc' = [alloc EXCEPT ![t].offset = 0, ![t].err = "ErrArenaFull"]
                   /\ fullSeen' = fullSeen + 1
                   /\ UNCHANGED allocs
              ELSE /\ alloc' = [alloc EXCEPT
                                  ![t].offset = AlignedOffset(new, padded, alloc[t].alignment),
                                  ![t].err = "nil"]
                   /\ allocs' = allocs \cup
                        {[offset |-> AlignedOffset(new, padded, alloc[t].alignment),
                          size |-> alloc[t].size, alignment |-> alloc[t].alignment,
                          old |-> position, new |-> new]}
                   /\ UNCHANGED fullSeen
    /\ pc' = [pc EXCEPT ![t] = "AllocateRet"]
    /\ UNCHANGED <<buffer, overflow, ops, resets, sklVars, add, returned>>
    /\ UNCHANGED <<memVars, iterVars, readerVars, fn>>

\* Arena.Reset.
Reset ==
    /\ resets < MaxResets
    /\ position' = 1
    /\ resets' = resets + 1
    /\ allocs' = {}
    /\ fullSeen' = 0
    /\ UNCHANGED <<buffer, overflow, pc, ops, alloc, sklVars, add, returned>>
    /\ UNCHANGED <<memVars, iterVars, readerVars, fn>>

\* A client goroutine calls Allocate(size, alignment).
ClientAllocate(t) ==
    /\ pc[t] = "idle"
    /\ ops[t] < MaxOps
    /\ \E size \in 1..MaxAllocSize, alignment \in Alignments :
         alloc' = [alloc EXCEPT ![t] = [size |-> size, alignment |-> alignment,
                                        offset |-> 0, err |-> "none", caller |-> "client"]]
    /\ pc' = [pc EXCEPT ![t] = "Allocate"]
    /\ UNCHANGED <<arenaVars, ops, histVars, sklVars, add, returned>>
    /\ UNCHANGED <<memVars, iterVars, readerVars, fn>>

\* Allocate returns to the client.
ClientReturn(t) ==
    /\ pc[t] = "AllocateRet"
    /\ alloc[t].caller = "client"
    /\ pc' = [pc EXCEPT ![t] = "idle"]
    /\ ops' = [ops EXCEPT ![t] = @ + 1]
    /\ alloc' = [alloc EXCEPT ![t] = NoAlloc]
    /\ UNCHANGED <<arenaVars, histVars, sklVars, add, returned>>
    /\ UNCHANGED <<memVars, iterVars, readerVars, fn>>

InitArena ==
    /\ position = 1
    /\ buffer = ArenaBufLen
    /\ overflow = ArenaOverflow
    /\ pc = [t \in Procs |-> "idle"]
    /\ ops = [t \in Procs |-> 0]
    /\ alloc = [t \in Procs |-> NoAlloc]
    /\ allocs = {}
    /\ fullSeen = 0
    /\ resets = 0
    /\ head = 0
    /\ tail = 0
    /\ height = 0
    /\ nodes = <<>>
    /\ tower = <<>>
    /\ add = [t \in Procs |-> NoAdd]
    /\ returned = EmptyBag
    /\ NoMemTable
    /\ fn = NoCall

NextArena ==
    \/ \E t \in Procs : ClientAllocate(t)
    \/ \E t \in Procs : AllocLoad(t)
    \/ \E t \in Procs : AllocAdd(t)
    \/ \E t \in Procs : ClientReturn(t)
    \/ Reset

SpecArena == InitArena /\ [][NextArena]_vars

\* ---------------------------------------------------------------- Skiplist
\* node.nextOffset and node.prevOffset: atomic loads of a tower slot.
nextOffset(n, h) == tower[n][h].next
prevOffset(n, h) == tower[n][h].prev

\* A compare-and-swap that stores whatever the slot holds.
BlindSwap(current, old) == TRUE

\* atomic CompareAndSwap: it succeeds iff the slot still holds old.
CompareAndSwap(current, old) == current = old

\* Equality of user keys taken for equality of internal keys.
UserKeyEqual(c, keyTrailer, nextTrailer) == c = 0

\* findSpliceForLevel, "cmp == 0" and "key.Trailer == next.keyTrailer":
\* internal key equality.
InternalKeyEqual(c, keyTrailer, nextTrailer) == c = 0 /\ keyTrailer = nextTrailer

\* findSpliceForLevel at equal user keys with the trailer order reversed.
KeyTrailerBeforeAscending(keyTrailer, nextTrailer) == keyTrailer < nextTrailer

\* findSpliceForLevel, "key.Trailer > next.keyTrailer": at equal user keys the
\* key sorts before next.
KeyTrailerBefore(keyTrailer, nextTrailer) == keyTrailer > nextTrailer

\* newNode: the footprint of a node with a truncated tower.
Truncated(h) == nodeSize - (maxHeight - h) * linksSize
TotalSize(h, key, value) == Truncated(h) + Len(key.LogicalKey) + Len(value)

\* One iteration of the loop of findSpliceForLevel(key, level, prev).
FindSpliceForLevelIter(key, level, prev) ==
    IF prev \notin DOMAIN tower
    THEN [panic |-> TRUE, done |-> TRUE, prev |-> prev, next |-> 0, found |-> FALSE]
    ELSE IF level \notin DOMAIN tower[prev] \/ nextOffset(prev, level) = 0
    THEN [panic |-> TRUE, done |-> TRUE, prev |-> prev, next |-> 0, found |-> FALSE]
    ELSE
    LET next == nextOffset(prev, level)
        stop == [panic |-> FALSE, done |-> TRUE, prev |-> prev, next |-> next, found |-> FALSE]
    IN  IF next = tail THEN stop
        ELSE LET c == cmp(key.LogicalKey, nodes[next].key)
             IN  IF c < 0 THEN stop
                 ELSE IF InternalKeyEqual(c, key.Trailer, nodes[next].keyTrailer)
                 THEN [stop EXCEPT !.found = TRUE]
                 ELSE IF c = 0 /\ KeyTrailerBefore(key.Trailer, nodes[next].keyTrailer)
                 THEN stop
                 ELSE [stop EXCEPT !.done = FALSE, !.prev = next]

\* addInternal, top of the level loop: the splice of level i, or (head, tail)
\* for a level the list did not have when the splice was computed; a nil prev
\* with a next that is not nil is the panic "next is expected to be nil".
AtLevel(f, i) ==
    LET spl == f.ins.spl[i]
    IN  [f EXCEPT !.i = i,
                  !.prev = IF spl.prev = 0 THEN head ELSE spl.prev,
                  !.next = IF spl.prev = 0 THEN tail ELSE spl.next,
                  !.err = IF spl.prev = 0 /\ spl.next # 0 THEN "panicNextNotNil" ELSE f.err]

\* addInternal, after the level loop: the splice cache update and "return nil".
FinishedWithError(f) == [f EXCEPT !.err = "ErrRecordExists"]
Finished(f) ==
    [f EXCEPT !.err = "nil",
              !.ins = IF f.invalidateSplice
                      THEN [f.ins EXCEPT !.height = 0]
                      ELSE [f.ins EXCEPT !.spl = [i \in 0..(maxHeight - 1) |->
                                IF i < f.height THEN [f.ins.spl[i] EXCEPT !.prev = f.nd]
                                ELSE f.ins.spl[i]]]]

\* findSplice, up to its descent: the cached height is below the list height,
\* so the splice is recomputed from the top level, starting at head.
FindSpliceTop(f) ==
    [f EXCEPT !.ins.height = height, !.level = height - 1, !.prev = head, !.retry = FALSE]

\* Calls begun so far, by all goroutines.
Started == BagCardinality(returned) + Cardinality({t \in Procs : pc[t] # "idle"})

\* Skiplist.Add(key, value), called by a client goroutine with a zero Inserter,
\* up to findSplice's load of the list height.
ClientAdd(t) ==
    /\ pc[t] = "idle"
    /\ Started < MaxAdds
    /\ \E key \in Keys, value \in Values :
         add' = [add EXCEPT ![t] = FindSpliceTop([NoAdd EXCEPT !.key = key, !.value = value,
                                                               !.caller = "client"])]
    /\ pc' = [pc EXCEPT ![t] = "findSpliceForLevel"]
    /\ UNCHANGED <<arenaVars, sklVars, ops, alloc, returned, histVars>>
    /\ UNCHANGED <<memVars, iterVars, readerVars, fn>>

\* addInternal returns with frame f: a client's call is recorded and its
\* goroutine is free again, keeping its Inserter if it called Inserter.Add;
\* MemTable.Add goes on with the result.
Return(t, f) ==
    /\ IF f.caller = "client"
       THEN /\ returned' = returned (+)
                   SetToBag({[key |-> f.key, err |-> f.err, retried |-> f.retry,
                              backFailed |-> f.backFailed]})
            /\ add' = [add EXCEPT ![t] = NoAdd]
            /\ pc' = [pc EXCEPT ![t] = "idle"]
       ELSE IF f.caller = "inserter"
       THEN /\ returned' = returned (+)
                   SetToBag({[key |-> f.key, err |-> f.err, retried |-> f.retry,
                              backFailed |-> f.backFailed]})
            /\ add' = [add EXCEPT ![t] = [NoAdd EXCEPT !.ins = f.ins]]
            /\ pc' = [pc EXCEPT ![t] = "idle"]
       ELSE /\ add' = [add EXCEPT ![t] = f]
            /\ pc' = [pc EXCEPT ![t] = "AddRet"]
            /\ UNCHANGED returned
    /\ UNCHANGED ops

\* Skiplist.newNode: randomHeight, then the call of Arena.Allocate.
NewNode(t, f) ==
    /\ \E h \in 1..MaxH :
         /\ add' = [add EXCEPT ![t] = [f EXCEPT !.height = h]]
         /\ alloc' = [alloc EXCEPT ![t] =
                        [size |-> TotalSize(h, f.key, f.value),
                         alignment |-> nodeAlignment, offset |-> 0, err |-> "none",
                         caller |-> "newNode"]]
    /\ pc' = [pc EXCEPT ![t] = "Allocate"]
    /\ UNCHANGED <<returned, ops>>

\* Iterator.decodeKey: the internal key stored with node n.
InternalKeyOf(n) == [LogicalKey |-> nodes[n].key, Trailer |-> nodes[n].keyTrailer]

\* Skiplist.keyIsAfterNode(nd, key).
keyIsAfterNode(nd, key) ==
    LET c == cmp(nodes[nd].key, key.LogicalKey)
    IN  IF c < 0 THEN TRUE
        ELSE IF c > 0 THEN FALSE
        ELSE IF key.Trailer = nodes[nd].keyTrailer THEN FALSE
        ELSE key.Trailer < nodes[nd].keyTrailer

\* findSplice's descent from (level, prev) after the loop over the cached
\* splices: "for level = level - 1; level >= 0"; with no level left findSplice
\* returns found = false and addInternal goes on to newNode.
Descend(t, f, level, prev) ==
    IF level - 1 >= 0
    THEN /\ add' = [add EXCEPT ![t] = [f EXCEPT !.level = level - 1, !.prev = prev]]
         /\ pc' = [pc EXCEPT ![t] = "findSpliceForLevel"]
         /\ UNCHANGED <<alloc, returned, ops>>
    ELSE NewNode(t, [f EXCEPT !.found = FALSE])

\* Inserter.Add(list, key, value) with the goroutine's own Inserter, kept from
\* its earlier calls, up to findSplice's load of the list height.
InserterAdd(t) ==
    /\ pc[t] = "idle"
    /\ Started < MaxAdds
    /\ \E key \in Keys, value \in Values :
         LET f == [NoAdd EXCEPT !.key = key, !.value = value, !.caller = "inserter",
                                !.ins = add[t].ins]
         IN  IF f.ins.height < height
             THEN /\ add' = [add EXCEPT ![t] = FindSpliceTop(f)]
                  /\ pc' = [pc EXCEPT ![t] = "findSpliceForLevel"]
             ELSE /\ add' = [add EXCEPT ![t] = [f EXCEPT !.level = 0, !.prev = head]]
                  /\ pc' = [pc EXCEPT ![t] = "findSpliceCached"]
    /\ UNCHANGED <<arenaVars, sklVars, ops, alloc, returned, histVars>>
    /\ UNCHANGED <<memVars, iterVars, readerVars, fn>>

\* findSplice with a cached height equal to the list height: one turn of the
\* loop over the cached splices, from level 0 up, and the descent after it.
FindSpliceCached(t) ==
    /\ pc[t] = "findSpliceCached"
    /\ LET f == add[t]
           listHeight == f.ins.height
           spl == f.ins.spl[f.level]
       IN  IF f.level >= listHeight
           THEN Descend(t, f, f.level, f.prev)
           ELSE IF spl.prev \notin DOMAIN tower \/ f.level \notin DOMAIN tower[spl.prev]
           THEN /\ pc' = [pc EXCEPT ![t] = "panic"]
                /\ UNCHANGED <<add, alloc, returned, ops>>
           ELSE IF nextOffset(spl.prev, f.level) # spl.next
           THEN /\ add' = [add EXCEPT ![t].level = f.level + 1]
                /\ UNCHANGED <<pc, alloc, returned, ops>>
           ELSE IF spl.prev # head /\ ~keyIsAfterNode(spl.prev, f.key)
           THEN Descend(t, f, listHeight, f.prev)
           ELSE IF spl.next # tail /\ keyIsAfterNode(spl.next, f.key)
           THEN Descend(t, f, listHeight, f.prev)
           ELSE Descend(t, f, f.level, spl.prev)
    /\ UNCHANGED <<arenaVars, sklVars, histVars>>
    /\ UNCHANGED <<memVars, iterVars, readerVars, fn>>

\* One load of findSpliceForLevel, and what its caller does when it returns:
\* findSplice records the splice and descends, and at level 0 addInternal
\* returns ErrRecordExists or goes on to newNode; after a failed CAS addInternal
\* retries with the new splice.
FindSpliceForLevel(t) ==
    /\ pc[t] = "findSpliceForLevel"
    /\ LET f == add[t]
           r == FindSpliceForLevelIter(f.key, f.level, f.prev)
       IN  IF sklArena = "nil" \/ r.panic
           THEN /\ pc' = [pc EXCEPT ![t] = "panic"]
                /\ UNCHANGED <<add, alloc, returned, ops>>
           ELSE IF ~r.done
           THEN /\ add' = [add EXCEPT ![t].prev = r.prev]
                /\ UNCHANGED <<pc, alloc, returned, ops>>
           ELSE IF f.retry
           THEN IF r.found
                THEN IF f.i # 0
                     THEN /\ pc' = [pc EXCEPT ![t] = "panic"]
                          /\ add' = [add EXCEPT ![t].err = "panicNonBaseLevel"]
                          /\ UNCHANGED <<alloc, returned, ops>>
                     ELSE /\ Return(t, [f EXCEPT !.err = "ErrRecordExists"])
                          /\ UNCHANGED alloc
                ELSE /\ add' = [add EXCEPT ![t].prev = r.prev, ![t].next = r.next,
                                           ![t].found = FALSE,
                                           ![t].invalidateSplice = TRUE]
                     /\ pc' = [pc EXCEPT ![t] = "link"]
                     /\ UNCHANGED <<alloc, returned, ops>>
           ELSE LET g == [f EXCEPT !.ins.spl[f.level] = [prev |-> r.prev, next |-> r.next],
                                   !.prev = r.prev, !.next = r.next, !.found = r.found]
                IN  IF f.level > 0
                    THEN /\ add' = [add EXCEPT ![t] = [g EXCEPT !.level = f.level - 1]]
                         /\ UNCHANGED <<pc, alloc, returned, ops>>
                    ELSE IF r.found
                    THEN /\ Return(t, [g EXCEPT !.err = "ErrRecordExists"])
                         /\ UNCHANGED alloc
                    ELSE NewNode(t, g)
    /\ UNCHANGED <<arenaVars, sklVars, histVars>>
    /\ UNCHANGED <<memVars, iterVars, readerVars, fn>>

\* newNode's loop condition "height > listHeight", and a newNode that never
\* raises the list height.
TallerNever(h, listHeight) == FALSE
Taller(h, listHeight) == h > listHeight

\* What a link slot of a newly allocated node holds before addInternal stores
\* it: zero in a fresh buffer, and in a recycled one the bytes of the arena's
\* previous life, which Arena.Reset does not overwrite.
Unwritten ==
    IF fn.op = "recycled" THEN [prev |-> fn.stale, next |-> fn.stale] ELSE NoSplice

\* newNode after Allocate: fill in the node, then load the list height.
NewNodeInit(t) ==
    /\ pc[t] = "AllocateRet"
    /\ alloc[t].caller = "newNode"
    /\ alloc' = [alloc EXCEPT ![t] = NoAlloc]
    /\ IF alloc[t].err # "nil"
       THEN /\ Return(t, [add[t] EXCEPT !.err = alloc[t].err])
            /\ UNCHANGED <<nodes, tower>>
       ELSE LET nd == alloc[t].offset
                f == add[t]
            IN  /\ nodes' = (nd :> [key |-> f.key.LogicalKey, keyTrailer |-> f.key.Trailer,
                                    value |-> f.value, height |-> f.height]) @@ nodes
                /\ tower' = (nd :> [i \in 0..(f.height - 1) |-> Unwritten]) @@ tower
                /\ add' = [add EXCEPT ![t] = [AtLevel(f, 0) EXCEPT !.nd = nd,
                                                                   !.listHeight = height]]
                /\ pc' = [pc EXCEPT ![t] = IF Taller(f.height, height) THEN "heightCAS" ELSE "link"]
                /\ UNCHANGED <<ops, returned>>
    /\ UNCHANGED <<arenaVars, head, tail, height, histVars>>
    /\ UNCHANGED <<memVars, iterVars, readerVars, fn>>

\* newNode: "for height > listHeight": CAS the list height up, reload on failure.
HeightCAS(t) ==
    /\ pc[t] = "heightCAS"
    /\ IF CompareAndSwap(height, add[t].listHeight)
       THEN /\ height' = add[t].height
            /\ pc' = [pc EXCEPT ![t] = "link"]
            /\ UNCHANGED add
       ELSE /\ add' = [add EXCEPT ![t].listHeight = height]
            /\ pc' = [pc EXCEPT ![t] = IF Taller(add[t].height, height) THEN "heightCAS"
                                     ELSE "link"]
            /\ UNCHANGED height
    /\ UNCHANGED <<arenaVars, head, tail, nodes, tower, ops, alloc, returned, histVars>>
    /\ UNCHANGED <<memVars, iterVars, readerVars, fn>>

\* addInternal, inner loop: store the node's own links for level i, then load
\* next.prev (nextPrevOffset lives only while it differs from prev and until
\* the CAS of prev.next).  On a released skiplist s.arena is nil and
\* GetPointerOffset dereferences it.
Link(t) ==
    /\ pc[t] = "link"
    /\ LET f == add[t]
       IN  IF sklArena = "nil" \/ f.err = "panicNextNotNil"
           THEN /\ pc' = [pc EXCEPT ![t] = "panic"]
                /\ UNCHANGED <<tower, add>>
           ELSE /\ tower' = [tower EXCEPT ![f.nd][f.i] = [prev |-> f.prev, next |-> f.next]]
                /\ IF prevOffset(f.next, f.i) # f.prev
                   THEN /\ add' = [add EXCEPT ![t].nextPrevOffset = prevOffset(f.next, f.i)]
                        /\ pc' = [pc EXCEPT ![t] = "linkPrevNext"]
                   ELSE /\ pc' = [pc EXCEPT ![t] = "linkCAS"]
                        /\ UNCHANGED add
    /\ UNCHANGED <<arenaVars, head, tail, height, nodes, ops, alloc, returned, histVars>>
    /\ UNCHANGED <<memVars, iterVars, readerVars, fn>>

\* addInternal's test "prevNextOffset == nextOffset": prev still points to
\* next, so next's back link is only late.
PrevNeverLinksNext(prevNextOffset, next) == FALSE
PrevStillLinksNext(prevNextOffset, next) == prevNextOffset = next

\* next.prev is not prev: load prev.next to tell a late back link from a
\* concurrent insert.
LinkPrevNext(t) ==
    /\ pc[t] = "linkPrevNext"
    /\ IF PrevStillLinksNext(nextOffset(add[t].prev, add[t].i), add[t].next)
       THEN /\ pc' = [pc EXCEPT ![t] = "linkHelp"]
            /\ UNCHANGED add
       ELSE /\ pc' = [pc EXCEPT ![t] = "linkCAS"]
            /\ add' = [add EXCEPT ![t].nextPrevOffset = 0]
    /\ UNCHANGED <<arenaVars, sklVars, ops, alloc, returned, histVars>>
    /\ UNCHANGED <<memVars, iterVars, readerVars, fn>>

\* Help the goroutine that added next: CAS next.prev from what was read to prev.
LinkHelp(t) ==
    /\ pc[t] = "linkHelp"
    /\ LET f == add[t]
       IN  tower' = IF CompareAndSwap(prevOffset(f.next, f.i), f.nextPrevOffset)
                    THEN [tower EXCEPT ![f.next][f.i].prev = f.prev]
                    ELSE tower
    /\ pc' = [pc EXCEPT ![t] = "linkCAS"]
    /\ add' = [add EXCEPT ![t].nextPrevOffset = 0]
    /\ UNCHANGED <<arenaVars, head, tail, height, nodes, ops, alloc, returned, histVars>>
    /\ UNCHANGED <<memVars, iterVars, readerVars, fn>>

\* Where addInternal goes on after a failed CAS of prev.next: it searches the
\* level again from prev; an addInternal that only repeated the CAS.
RetryCAS == "linkCAS"
RetrySearch == "findSpliceForLevel"

\* CAS prev.next from next to the node; on failure search this level again.
LinkCAS(t) ==
    /\ pc[t] = "linkCAS"
    /\ LET f == add[t]
       IN  IF CompareAndSwap(nextOffset(f.prev, f.i), f.next)
           THEN /\ tower' = [tower EXCEPT ![f.prev][f.i].next = f.nd]
                /\ pc' = [pc EXCEPT ![t] = "linkBack"]
                /\ UNCHANGED add
           ELSE /\ add' = [add EXCEPT ![t].retry = TRUE, ![t].level = f.i]
                /\ pc' = [pc EXCEPT ![t] = RetrySearch]
                /\ UNCHANGED tower
    /\ UNCHANGED <<arenaVars, head, tail, height, nodes, ops, alloc, returned, histVars>>
    /\ UNCHANGED <<memVars, iterVars, readerVars, fn>>

\* CAS next.prev from prev to the node; then the next level, or return nil.
LinkBack(t) ==
    /\ pc[t] = "linkBack"
    /\ LET swapped == CompareAndSwap(prevOffset(add[t].next, add[t].i), add[t].prev)
           f == [add[t] EXCEPT !.backFailed = @ \/ ~swapped]
       IN  /\ tower' = IF swapped
                       THEN [tower EXCEPT ![f.next][f.i].prev = f.nd]
                       ELSE tower
           /\ IF f.i + 1 < f.height
              THEN /\ add' = [add EXCEPT ![t] = AtLevel(f, f.i + 1)]
                   /\ pc' = [pc EXCEPT ![t] = "link"]
                   /\ UNCHANGED <<ops, returned>>
              ELSE Return(t, Finished(f))
    /\ UNCHANGED <<arenaVars, head, tail, height, nodes, alloc, histVars>>
    /\ UNCHANGED <<memVars, iterVars, readerVars, fn>>

\* Skiplist.Reset, "Link all head/tail levels together": the link is stored
\* whatever the slot held; a Reset that left the slot as it found it.
ResetLinkSkipped(target, unwritten) == unwritten
ResetLink(target, unwritten) == target

\* skiplist.New(size, cmp): arena.WithOverflow(size, nodeSize), then Reset
\* allocates head and tail with full towers and links every level.  The
\* links Reset does not store (head's prev, tail's next) keep what the buffer
\* held: unwritten.
InitSkiplistWith(size, unwritten) ==
    LET padded == nodeSize + nodeAlignment - 1
        headOffset == AlignedOffset(1 + padded, padded, nodeAlignment)
        tailOffset == AlignedOffset(1 + 2 * padded, padded, nodeAlignment)
        sentinel == [key |-> <<>>, keyTrailer |-> 0, value |-> <<>>, height |-> maxHeight]
    IN  /\ buffer = size + nodeSize
        /\ overflow = nodeSize
        /\ position = 1 + 2 * padded
        /\ head = headOffset
        /\ tail = tailOffset
        /\ height = 1
        /\ nodes = (headOffset :> sentinel) @@ (tailOffset :> sentinel)
        /\ tower = (headOffset :> [i \in 0..(maxHeight - 1) |->
                                     [prev |-> unwritten,
                                      next |-> ResetLink(tailOffset, unwritten)]])
                   @@ (tailOffset :> [i \in 0..(maxHeight - 1) |->
                                        [prev |-> ResetLink(headOffset, unwritten),
                                         next |-> unwritten]])
        /\ allocs = {[offset |-> headOffset, size |-> nodeSize, alignment |-> nodeAlignment,
                      old |-> 1, new |-> 1 + padded],
                     [offset |-> tailOffset, size |-> nodeSize, alignment |-> nodeAlignment,
                      old |-> 1 + padded, new |-> 1 + 2 * padded]}
        /\ fullSeen = 0
        /\ resets = 0
        /\ pc = [t \in Procs |-> "idle"]
        /\ ops = [t \in Procs |-> 0]
        /\ alloc = [t \in Procs |-> NoAlloc]
        /\ add = [t \in Procs |-> NoAdd]
        /\ returned = EmptyBag

\* The same on a buffer of zero bytes, as make([]byte, size) gives it.
InitSkiplist(size) == InitSkiplistWith(size, 0)

AddSteps(t) ==
    \/ FindSpliceForLevel(t)
    \/ AllocLoad(t)
    \/ AllocAdd(t)
    \/ NewNodeInit(t)
    \/ HeightCAS(t)
    \/ Link(t)
    \/ LinkPrevNext(t)
    \/ LinkHelp(t)
    \/ LinkCAS(t)
    \/ LinkBack(t)

NextSkiplist ==
    \E t \in Procs : ClientAdd(t) \/ AddSteps(t)

\* skiplist.New(SklArenaSize, cmp), used without a memtable.
InitSkiplistAlone ==
    /\ InitSkiplist(SklArenaSize)
    /\ NoMemTable
    /\ fn = NoCall

SpecSkiplist == InitSkiplistAlone /\ [][NextSkiplist]_vars

NextInserter ==
    \E t \in Procs : InserterAdd(t) \/ FindSpliceCached(t) \/ AddSteps(t)

SpecInserter == InitSkiplistAlone /\ [][NextInserter]_vars

\* ---------------------------------------------------------------- Iterator
\* The bounds a reader gives to Skiplist.Iter: nil, or a user key, one of them
\* above every key that is inserted.  The reader gives the same key as lower
\* and as upper bound: First and Next test the upper one only, Last and Prev
\* the lower one only.
IterBounds ==
    {NoBound} \cup {[set |-> TRUE, key |-> <<b>>] : b \in 1..(MaxByte + 1)}

\* The keys the writers insert while the reader iterates: every user key, with
\* the first sequence number.
WriterKeys == {k \in Keys : TrailerSeqNum(k.Trailer) = 1}

\* The keys of the Add calls that have returned nil.
Inserted == {r.key : r \in {x \in BagToSet(returned) : x.err = "nil"}}

\* Skiplist.Iter(lower, upper, close).
Iter(lower, upper) ==
    /\ rd.state = "none"
    /\ rd' = [NoReader EXCEPT !.state = "open", !.nd = head, !.lower = lower,
                              !.upper = upper]
    /\ UNCHANGED <<pass, hookRuns>>
    /\ UNCHANGED <<arenaVars, sklVars, pc, ops, alloc, add, returned, histVars, memVars,
                   iterVars, fn>>

\* The upper bound taken as inclusive.
UpperReachedStrict(c) == c < 0

\* Iterator.First and Iterator.Next: "compare(it.upper, it.kv.K.LogicalKey) <= 0".
UpperReached(c) == c <= 0

\* Iterator.Last and Iterator.Prev: "compare(it.lower, it.kv.K.LogicalKey) > 0".
LowerPassed(c) == c > 0

\* Iterator.First and Iterator.Next after "it.node = getNext(...)": the test
\* for tail and upperNode, decodeKey, the test of the upper bound which
\* memoises upperNode, and the load of the value.  state is "valid" when the
\* call returns &it.kv and "exhausted" when it returns nil.
Forward(r, nd) ==
    IF nd = tail \/ nd = r.upperNode
    THEN [r EXCEPT !.nd = nd, !.state = "exhausted"]
    ELSE LET K == InternalKeyOf(nd)
         IN  IF r.upper.set /\ UpperReached(cmp(r.upper.key, K.LogicalKey))
             THEN [r EXCEPT !.nd = nd, !.K = K, !.upperNode = nd, !.state = "exhausted"]
             ELSE [r EXCEPT !.nd = nd, !.K = K, !.V = nodes[nd].value, !.state = "valid"]

\* Iterator.Last and Iterator.Prev after "it.node = getPrev(...)".
Backward(r, nd) ==
    IF nd = head \/ nd = r.lowerNode
    THEN [r EXCEPT !.nd = nd, !.state = "exhausted"]
    ELSE LET K == InternalKeyOf(nd)
         IN  IF r.lower.set /\ LowerPassed(cmp(r.lower.key, K.LogicalKey))
             THEN [r EXCEPT !.nd = nd, !.K = K, !.lowerNode = nd, !.state = "exhausted"]
             ELSE [r EXCEPT !.nd = nd, !.K = K, !.V = nodes[nd].value, !.state = "valid"]

\* What a call that left the Iterator as r returned, as a sequence.
Returned(r) == IF r.state = "valid" THEN <<[K |-> r.K, V |-> r.V]>> ELSE <<>>

\* The reader begins a pass in direction dir with a call that left r.
BeginPass(dir, r) ==
    /\ rd' = r
    /\ pass' = [dir |-> dir, kvs |-> Returned(r), before |-> Inserted,
                ended |-> r.state = "exhausted", count |-> pass.count + 1,
                lower |-> r.lower, upper |-> r.upper,
                idle |-> \A t \in Procs : pc[t] = "idle",
                calls |-> BagCardinality(returned)]
    /\ UNCHANGED hookRuns
    /\ UNCHANGED <<arenaVars, sklVars, pc, ops, alloc, add, returned, histVars, memVars,
                   iterVars, fn>>

\* The reader goes on with its pass with a call that left r.
ContinuePass(r) ==
    /\ rd' = r
    /\ pass' = [pass EXCEPT !.kvs = @ \o Returned(r), !.ended = r.state = "exhausted"]
    /\ UNCHANGED hookRuns
    /\ UNCHANGED <<arenaVars, sklVars, pc, ops, alloc, add, returned, histVars, memVars,
                   iterVars, fn>>

\* Iterator.First.
IterFirst ==
    /\ rd.state \in {"open", "exhausted"}
    /\ pass.count < MaxPasses
    /\ BeginPass("forward", Forward(rd, nextOffset(head, 0)))

\* Iterator.Next, called after a call of the forward pass returned a record.
IterNext ==
    /\ rd.state = "valid"
    /\ pass.dir = "forward"
    /\ ContinuePass(Forward(rd, nextOffset(rd.nd, 0)))

\* Iterator.Last.
IterLast ==
    /\ rd.state \in {"open", "exhausted"}
    /\ pass.count < MaxPasses
    /\ BeginPass("reverse", Backward(rd, prevOffset(tail, 0)))

\* Iterator.Prev, called after a call of the reverse pass returned a record.
IterPrev ==
    /\ rd.state = "valid"
    /\ pass.dir = "reverse"
    /\ ContinuePass(Backward(rd, prevOffset(rd.nd, 0)))

\* Iterator.Close: the close hook runs, then "*it = Iterator{}".
IterClose ==
    /\ rd.state \in {"open", "valid", "exhausted"}
    /\ hookRuns' = hookRuns + 1
    /\ rd' = [NoReader EXCEPT !.state = "closed"]
    /\ UNCHANGED pass
    /\ UNCHANGED <<arenaVars, sklVars, pc, ops, alloc, add, returned, histVars, memVars,
                   iterVars, fn>>

\* Skiplist.Add(key, value) by a writer goroutine while the reader iterates.
WriterAdd(t) ==
    /\ pc[t] = "idle"
    /\ Started < MaxReaderAdds
    /\ \E key \in WriterKeys, value \in Values :
         add' = [add EXCEPT ![t] = FindSpliceTop([NoAdd EXCEPT !.key = key, !.value = value,
                                                               !.caller = "client"])]
    /\ pc' = [pc EXCEPT ![t] = "findSpliceForLevel"]
    /\ UNCHANGED <<arenaVars, sklVars, ops, alloc, returned, histVars>>
    /\ UNCHANGED <<memVars, iterVars, readerVars, fn>>

ReaderSteps ==
    \/ \E bound \in IterBounds : Iter(bound, bound)
    \/ IterFirst
    \/ IterNext
    \/ IterLast
    \/ IterPrev
    \/ IterClose

NextReader ==
    \/ \E t \in Procs : WriterAdd(t) \/ AddSteps(t)
    \/ ReaderSteps

SpecReader == InitSkiplistAlone /\ [][NextReader]_vars

\* The writer goroutines alone, under the Go scheduler: a goroutine that is
\* inside Add eventually takes its next step.  Nothing obliges a writer to
\* call Add.
NextWriters == \E t \in Procs : WriterAdd(t) \/ AddSteps(t)

SpecWritersLive ==
    /\ InitSkiplistAlone
    /\ [][NextWriters]_vars
    /\ \A t \in Procs : WF_vars(AddSteps(t))

\* ----------------------------------------------------------------- newNode
\* Arena.Allocate(size, overflow, alignment) of the arena with the counter n
\* and a buffer of len bytes: the counter it leaves, the offset and the error.
Allocate(n, len, size, over, alignment) ==
    IF n > len
    THEN [n |-> n, offset |-> 0, err |-> "ErrArenaFull"]
    ELSE LET padded == size + alignment - 1
             newSize == n + padded
         IN  IF newSize + over > len
             THEN [n |-> newSize, offset |-> 0, err |-> "ErrArenaFull"]
             ELSE [n |-> newSize, offset |-> AlignDown(newSize - padded + alignment, alignment),
                   err |-> "nil"]

\* newNode(a, height, key, value) and its newRawNode: the allocation of the
\* truncated node with its unused tower as overflow, and nd.keyOffset.
newNode(a, h, keySize, valueSize) ==
    LET unusedSize == (maxHeight - h) * linksSize
        truncated == maxNodeSize - unusedSize
        al == Allocate(a.n, a.len, truncated + keySize + valueSize, unusedSize, nodeAlignment)
    IN  [op |-> "newNode", len |-> a.len, n |-> al.n, calls |-> a.calls + 1, err |-> al.err,
         offset |-> al.offset, keyOffset |-> al.offset + truncated, keySize |-> keySize,
         valueSize |-> valueSize, before |-> a.n, height |-> h]

\* arena.NewArena(size), for every size.
InitNewNode ==
    /\ InitSkiplist(SklArenaSize)
    /\ NoMemTable
    /\ fn \in {[op |-> "NewArena", len |-> l, n |-> 1, calls |-> 0, err |-> "none",
                 offset |-> 0, keyOffset |-> 0, keySize |-> 0, valueSize |-> 0,
                 before |-> 0, height |-> 0] : l \in 1..MaxArenaLen}

\* A call of newNode on the arena, with a height that randomHeight draws or the
\* height of head and tail.
CallNewNode ==
    /\ fn.calls < MaxNodeCalls
    /\ \E h \in (1..MaxH) \cup {maxHeight}, keySize \in 0..MaxNodeBytes,
           valueSize \in 0..MaxNodeBytes :
         fn' = newNode(fn, h, keySize, valueSize)
    /\ UNCHANGED <<arenaVars, sklVars, pc, ops, alloc, add, returned, histVars, memVars,
                   iterVars, readerVars>>

SpecNewNode == InitNewNode /\ [][CallNewNode]_vars

\* ----------------------------------------------------------------- Trailer
\* The sequence numbers that leave room for the kind byte in a trailer word
\* (2^56 of them in a 64-bit word), and the kinds of a uint8.
TrailerSeqNums == 0..(2^(UintBits - 8) - 1)
Kinds == 0..255

\* A caller holds a sequence number and a kind.
InitTrailer ==
    /\ InitSkiplist(SklArenaSize)
    /\ NoMemTable
    /\ fn \in {[op |-> "input", seqNum |-> s, kind |-> k, trailer |-> 0,
                 seqNumOut |-> 0, kindOut |-> 0] : s \in TrailerSeqNums, k \in Kinds}

\* The caller calls MakeTrailer(seqNum, kind).
CallMakeTrailer ==
    /\ fn.op = "input"
    /\ fn' = [fn EXCEPT !.op = "MakeTrailer", !.trailer = MakeTrailer(fn.seqNum, fn.kind)]
    /\ UNCHANGED <<arenaVars, sklVars, pc, ops, alloc, add, returned, histVars, memVars,
                   iterVars, readerVars>>

\* The caller calls SeqNum() and Kind() on the trailer.
CallSeqNumKind ==
    /\ fn.op = "MakeTrailer"
    /\ fn' = [fn EXCEPT !.op = "SeqNumKind", !.seqNumOut = TrailerSeqNum(fn.trailer),
                                             !.kindOut = Kind(fn.trailer)]
    /\ UNCHANGED <<arenaVars, sklVars, pc, ops, alloc, add, returned, histVars, memVars,
                   iterVars, readerVars>>

NextTrailer == CallMakeTrailer \/ CallSeqNumKind

SpecTrailer == InitTrailer /\ [][NextTrailer]_vars

\* The kinds two trailers are compared with: InternalKeyKindDelete,
\* InternalKeyKindSet and the largest uint8.
PairKinds == {0, InternalKeyKindSet, 255}

\* The sequence numbers s is compared with: its neighbours, itself, the
\* smallest and the largest.
PairSeqNums(s) == TrailerSeqNums \cap {0, s - 1, s, s + 1, 2^(UintBits - 8) - 1}

\* A caller holds two sequence numbers and two kinds.
InitTrailerPair ==
    /\ InitSkiplist(SklArenaSize)
    /\ NoMemTable
    /\ fn \in UNION {{[op |-> "input", s1 |-> s1, k1 |-> k1, s2 |-> s2, k2 |-> k2,
                        t1 |-> 0, t2 |-> 0, before |-> FALSE] :
                       s2 \in PairSeqNums(s1), k1 \in PairKinds, k2 \in PairKinds} :
                     s1 \in TrailerSeqNums}

\* The caller makes both trailers and findSpliceForLevel compares them at
\* equal user keys: the key with t1 against a next node with t2.
CallCompareTrailers ==
    /\ fn.op = "input"
    /\ LET t1 == MakeTrailer(fn.s1, fn.k1)
           t2 == MakeTrailer(fn.s2, fn.k2)
       IN  fn' = [fn EXCEPT !.op = "compare", !.t1 = t1, !.t2 = t2,
                            !.before = KeyTrailerBefore(t1, t2)]
    /\ UNCHANGED <<arenaVars, sklVars, pc, ops, alloc, add, returned, histVars, memVars,
                   iterVars, readerVars>>

SpecTrailerOrder == InitTrailerPair /\ [][CallCompareTrailers]_vars

\* ---------------------------------------------------------------- MemTable
\* memtable.New: a skiplist over a fresh arena, and one reference for being
\* the active memtable.  seqNum is never assigned.
InitMemtable ==
    /\ InitSkiplist(SklArenaSize)
    /\ sklArena = "arena"
    /\ memSeqNum = 0
    /\ references = 1
    /\ writers = 0
    /\ readOnly = FALSE
    /\ fl = NoFlush
    /\ mem = [t \in Procs |-> NoMem]
    /\ flushes = 0
    /\ handoffs = 0
    /\ decrements = 0
    /\ releases = <<>>
    /\ it = NoIterator
    /\ emitted = <<>>
    /\ NoReaders
    /\ fn = NoCall

\* base.InternalKV.SeqNum: the trailer without its kind byte.
SeqNum(key) == TrailerSeqNum(key.Trailer)

\* sync.WaitGroup.Wait returns when the counter is zero.
WaitReturnsEarly(counter) == TRUE
WaitReturns(counter) == counter = 0

\* MemTable.Add's guard on the read-only flag.
ReadOnlyIgnored(flag) == FALSE
ReadOnlyLoad(flag) == flag

\* MemTable.IsActive.
IsInactive == references = 0
IsActive == references # 0

\* atomic.Uint.Add(-1).
AddMinusOne(n) == (n + 2^UintBits - 1) % 2^UintBits

\* MemTable.Add's mapping of the skiplist's errors.
MemErrUnmapped(err) == err
MemErr(err) ==
    IF err = "ErrArenaFull" THEN "ErrMemtableFlushed" ELSE err

\* MemTable.Add calls begun so far, by all goroutines.
InsertsStarted ==
    BagCardinality(returned) + Cardinality({t \in Procs : mem[t].op = "Add"})

\* MemTable.Add(kv): writers.Add(1).  late records whether the read-only flag
\* was already set when the call started.
MemAdd(t) ==
    /\ pc[t] = "idle"
    /\ InsertsStarted < MaxInserts
    /\ \E key \in Keys, value \in MemValues :
         add' = [add EXCEPT ![t] = [NoAdd EXCEPT !.key = key, !.value = value,
                                                 !.caller = "memtable"]]
    /\ writers' = writers + 1
    /\ mem' = [mem EXCEPT ![t] = [NoMem EXCEPT !.op = "Add", !.late = readOnly]]
    /\ pc' = [pc EXCEPT ![t] = "memCheck"]
    /\ UNCHANGED <<arenaVars, sklVars, ops, alloc, returned, histVars, sklArena, memSeqNum,
                   references, readOnly, fl, flushes, handoffs, decrements, releases>>
    /\ UNCHANGED <<iterVars, readerVars, fn>>

\* A value too long for what is left of an arena of FullArenaSize bytes.
LargeValue == [i \in 1..LargeValueLen |-> 1]

\* MemTable.Add(kv) with the long value: writers.Add(1).
MemAddLarge(t) ==
    /\ pc[t] = "idle"
    /\ InsertsStarted < MaxInserts
    /\ \E key \in Keys :
         add' = [add EXCEPT ![t] = [NoAdd EXCEPT !.key = key, !.value = LargeValue,
                                                 !.caller = "memtable"]]
    /\ writers' = writers + 1
    /\ mem' = [mem EXCEPT ![t] = [NoMem EXCEPT !.op = "Add", !.late = readOnly]]
    /\ pc' = [pc EXCEPT ![t] = "memCheck"]
    /\ UNCHANGED <<arenaVars, sklVars, ops, alloc, returned, histVars, sklArena, memSeqNum,
                   references, readOnly, fl, flushes, handoffs, decrements, releases>>
    /\ UNCHANGED <<iterVars, readerVars, fn>>

\* The guard rejecting the memtable's own creation sequence number as well.
InvalidSeqNumInclusive(kvSeqNum, created) == kvSeqNum <= created

\* MemTable.Add: "kv.SeqNum() < m.seqNum".
InvalidSeqNum(kvSeqNum, created) == kvSeqNum < created

\* MemTable.Add: the sequence number check and readOnly.Load().
MemAddCheck(t) ==
    /\ pc[t] = "memCheck"
    /\ IF InvalidSeqNum(SeqNum(add[t].key), memSeqNum)
       THEN /\ add' = [add EXCEPT ![t].err = "ErrInvalidSeqNum"]
            /\ pc' = [pc EXCEPT ![t] = "AddRet"]
       ELSE IF ReadOnlyLoad(readOnly)
       THEN /\ add' = [add EXCEPT ![t].err = "ErrMemtableFlushed"]
            /\ pc' = [pc EXCEPT ![t] = "AddRet"]
       ELSE /\ pc' = [pc EXCEPT ![t] = "Add"]
            /\ UNCHANGED add
    /\ UNCHANGED <<arenaVars, sklVars, ops, alloc, returned, histVars, memVars>>
    /\ UNCHANGED <<iterVars, readerVars, fn>>

\* Skiplist.Add called by MemTable.Add, up to findSplice's load of the list
\* height.
SkiplistAdd(t) ==
    /\ pc[t] = "Add"
    /\ add' = [add EXCEPT ![t] = FindSpliceTop(add[t])]
    /\ pc' = [pc EXCEPT ![t] = "findSpliceForLevel"]
    /\ UNCHANGED <<arenaVars, sklVars, ops, alloc, returned, histVars, memVars>>
    /\ UNCHANGED <<iterVars, readerVars, fn>>

\* An exit path of MemTable.Add that leaves the counter as it is.
DoneSkipped(counter) == counter

\* sync.WaitGroup.Done.
Done(counter) == counter - 1

\* MemTable.Add's return statement: the error mapping and the deferred
\* writers.Done().
MemAddDone(t) ==
    /\ pc[t] = "AddRet"
    /\ writers' = Done(writers)
    /\ returned' = returned (+)
           SetToBag({[key |-> add[t].key, err |-> MemErr(add[t].err),
                      retried |-> add[t].retry, late |-> mem[t].late,
                      cause |-> add[t].err, nd |-> add[t].nd,
                      backFailed |-> add[t].backFailed]})
    /\ add' = [add EXCEPT ![t] = NoAdd]
    /\ mem' = [mem EXCEPT ![t] = NoMem]
    /\ pc' = [pc EXCEPT ![t] = "idle"]
    /\ UNCHANGED <<arenaVars, sklVars, ops, alloc, histVars, sklArena, memSeqNum,
                   references, readOnly, fl, flushes, handoffs, decrements, releases>>
    /\ UNCHANGED <<iterVars, readerVars>>

\* MemTable.Add returns to a caller that keeps no state of its own.
MemAddReturn(t) ==
    /\ MemAddDone(t)
    /\ UNCHANGED fn

\* MemTable.Flush(flush): the CAS of readOnly, and the go statement when it
\* succeeded.
Flush(t) ==
    /\ pc[t] = "idle"
    /\ flushes < MaxFlushes
    /\ flushes' = flushes + 1
    /\ IF CompareAndSwap(readOnly, FALSE)
       THEN /\ readOnly' = TRUE
            /\ fl' = [fl EXCEPT !.waiting = @ + 1]
       ELSE UNCHANGED <<readOnly, fl>>
    /\ UNCHANGED <<arenaVars, sklVars, pc, ops, alloc, add, returned, histVars, sklArena,
                   memSeqNum, references, writers, mem, handoffs, decrements, releases>>
    /\ UNCHANGED <<iterVars, readerVars, fn>>

\* The flush goroutine: writers.Wait() returns.
FlushWait ==
    /\ fl.waiting > 0
    /\ WaitReturns(writers)
    /\ fl' = [fl EXCEPT !.waiting = @ - 1, !.ready = @ + 1]
    /\ UNCHANGED <<arenaVars, sklVars, pc, ops, alloc, add, returned, histVars, sklArena,
                   memSeqNum, references, writers, readOnly, mem, flushes, handoffs,
                   decrements, releases>>
    /\ UNCHANGED <<iterVars, readerVars, fn>>

\* The flush goroutine: flush(m.skiplist.FlushIter()), the callback is handed
\* the iterator.
FlushCall ==
    /\ fl.ready > 0
    /\ fl' = [fl EXCEPT !.ready = @ - 1, !.flushing = @ + 1]
    /\ handoffs' = handoffs + 1
    /\ it' = [NoIterator EXCEPT !.state = "new", !.nd = head]
    /\ emitted' = <<>>
    /\ UNCHANGED <<arenaVars, sklVars, pc, ops, alloc, add, returned, histVars, sklArena,
                   memSeqNum, references, writers, readOnly, mem, flushes, decrements,
                   releases>>
    /\ UNCHANGED <<readerVars, fn>>

\* The flush goroutine: the callback returns, then references.Add(-1).
FlushDone ==
    /\ fl.flushing > 0
    /\ fl' = [fl EXCEPT !.flushing = @ - 1]
    /\ references' = AddMinusOne(references)
    /\ decrements' = decrements + 1
    /\ UNCHANGED <<arenaVars, sklVars, pc, ops, alloc, add, returned, histVars, sklArena,
                   memSeqNum, writers, readOnly, mem, flushes, handoffs, releases>>
    /\ UNCHANGED <<iterVars, readerVars, fn>>

\* The flush callback: FlushIterator.First, which is Iterator.First without
\* bounds; it decodes the key and loads the value of the first node.
FlushIterFirst ==
    /\ fl.flushing > 0
    /\ it.state = "new"
    /\ LET nd == nextOffset(head, 0)
       IN  IF nd = tail
           THEN /\ it' = [it EXCEPT !.state = "done", !.nd = nd]
                /\ UNCHANGED emitted
           ELSE LET kv == [it EXCEPT !.state = "iterating", !.nd = nd,
                                     !.K = InternalKeyOf(nd), !.V = nodes[nd].value]
                IN  /\ it' = kv
                    /\ emitted' = Append(emitted, [K |-> kv.K, V |-> kv.V])
    /\ UNCHANGED <<arenaVars, sklVars, pc, ops, alloc, add, returned, histVars, memVars>>
    /\ UNCHANGED <<readerVars, fn>>

\* The flush callback: FlushIterator.Next; it decodes the key of the next node
\* and returns the iterator's kv.
FlushIterNext ==
    /\ fl.flushing > 0
    /\ it.state = "iterating"
    /\ LET nd == nextOffset(it.nd, 0)
       IN  IF nd = tail
           THEN /\ it' = [it EXCEPT !.state = "done", !.nd = nd]
                /\ UNCHANGED emitted
           ELSE LET kv == [it EXCEPT !.nd = nd, !.K = InternalKeyOf(nd)]
                IN  /\ it' = kv
                    /\ emitted' = Append(emitted, [K |-> kv.K, V |-> kv.V])
    /\ UNCHANGED <<arenaVars, sklVars, pc, ops, alloc, add, returned, histVars, memVars>>
    /\ UNCHANGED <<readerVars, fn>>

\* calculateMinimumBytes: Arena.Len() of a fresh skiplist, head and tail only.
minimumBytes == 2 * (nodeSize + nodeAlignment - 1)

\* MemTable.Size, MemTable.Cap and MemTable.Empty.
Size == IF sklArena = "nil" THEN 0 ELSE ArenaLen
Cap == IF sklArena = "nil" THEN 0 ELSE ArenaCap
Empty == IF sklArena = "nil" THEN TRUE ELSE ArenaLen = minimumBytes

\* ReleaseArena calls begun so far.
ReleasesStarted ==
    Len(releases) + Cardinality({t \in Procs : mem[t].op = "ReleaseArena"})

\* MemTable.ReleaseArena: the guard "if !m.IsActive()" and its return of
\* ErrMemtableActive.
ReleaseArena(t) ==
    /\ pc[t] = "idle"
    /\ ReleasesStarted < MaxReleases
    /\ IF ~IsActive
       THEN /\ releases' = Append(releases, [active |-> IsActive, err |-> "ErrMemtableActive",
                                             arena |-> "nil", detached |-> FALSE,
                                             refs |-> references])
            /\ UNCHANGED <<pc, mem>>
       ELSE /\ pc' = [pc EXCEPT ![t] = "ReleaseArenaLoad"]
            /\ mem' = [mem EXCEPT ![t] = [NoMem EXCEPT !.op = "ReleaseArena",
                                                       !.refs = references]]
            /\ UNCHANGED releases
    /\ UNCHANGED <<arenaVars, sklVars, ops, alloc, add, returned, histVars, sklArena,
                   memSeqNum, references, writers, readOnly, fl, flushes, handoffs,
                   decrements>>
    /\ UNCHANGED <<iterVars, readerVars, fn>>

\* MemTable.ReleaseArena past its guard: "a := m.skiplist.Arena()", a plain
\* read of the skiplist's arena field.
ReleaseArenaLoad(t) ==
    /\ pc[t] = "ReleaseArenaLoad"
    /\ mem' = [mem EXCEPT ![t].arena = sklArena]
    /\ pc' = [pc EXCEPT ![t] = "ReleaseArenaReset"]
    /\ UNCHANGED <<arenaVars, sklVars, ops, alloc, add, returned, histVars, sklArena,
                   memSeqNum, references, writers, readOnly, fl, flushes, handoffs,
                   decrements, releases>>
    /\ UNCHANGED <<iterVars, readerVars, fn>>

\* MemTable.ReleaseArena: Skiplist.Reset(nil) zeroes the skiplist, and a is
\* returned.
ReleaseArenaReset(t) ==
    /\ pc[t] = "ReleaseArenaReset"
    /\ releases' = Append(releases, [active |-> TRUE, err |-> "nil", arena |-> mem[t].arena,
                                     detached |-> TRUE, refs |-> mem[t].refs])
    /\ sklArena' = "nil"
    /\ head' = 0
    /\ tail' = 0
    /\ height' = 0
    /\ mem' = [mem EXCEPT ![t] = NoMem]
    /\ pc' = [pc EXCEPT ![t] = "idle"]
    /\ UNCHANGED <<arenaVars, nodes, tower, ops, alloc, add, returned, histVars, memSeqNum,
                   references, writers, readOnly, fl, flushes, handoffs, decrements>>
    /\ UNCHANGED <<iterVars, readerVars, fn>>

MemSteps(t) ==
    \/ MemAdd(t)
    \/ MemAddCheck(t)
    \/ SkiplistAdd(t)
    \/ MemAddReturn(t)
    \/ Flush(t)

FlushSteps ==
    \/ FlushWait
    \/ FlushCall
    \/ FlushDone

NextMemtable ==
    \/ \E t \in Procs : MemSteps(t)
    \/ \E t \in Procs : AddSteps(t)
    \/ FlushSteps

SpecMemtable == InitMemtable /\ [][NextMemtable]_vars

\* The memtable under the Go scheduler: a goroutine that is inside Add, and a
\* flush goroutine that can take its next step, eventually takes it; the
\* flush callback returns.  Nothing obliges a client to call Add or Flush.
SpecMemtableLive ==
    /\ InitMemtable
    /\ [][NextMemtable]_vars
    /\ \A t \in Procs :
          WF_vars(MemAddCheck(t) \/ SkiplistAdd(t) \/ AddSteps(t) \/ MemAddReturn(t))
    /\ WF_vars(FlushSteps)

NextRelease ==
    \/ NextMemtable
    \/ \E t \in Procs : ReleaseArena(t)
    \/ \E t \in Procs : ReleaseArenaLoad(t)
    \/ \E t \in Procs : ReleaseArenaReset(t)

SpecRelease == InitMemtable /\ [][NextRelease]_vars

\* memtable.New with an arena that two Inserts can exhaust.
InitMemtableFull ==
    /\ InitSkiplist(FullArenaSize)
    /\ sklArena = "arena"
    /\ memSeqNum = 0
    /\ references = 1
    /\ writers = 0
    /\ readOnly = FALSE
    /\ fl = NoFlush
    /\ mem = [t \in Procs |-> NoMem]
    /\ flushes = 0
    /\ handoffs = 0
    /\ decrements = 0
    /\ releases = <<>>
    /\ it = NoIterator
    /\ emitted = <<>>
    /\ NoReaders
    /\ fn = NoCall

SpecFull == InitMemtableFull /\ [][NextMemtable]_vars

\* The memtable with the small arena and writers of short and long values.
NextLarge ==
    \/ NextMemtable
    \/ \E t \in Procs : MemAddLarge(t)

SpecLarge == InitMemtableFull /\ [][NextLarge]_vars

\* A MemTable value with any creation sequence number in its seqNum field.
\* No constructor of the package assigns the field; the values above 0 are
\* those a literal inside the package gives it.
InitMemtableSeqNum ==
    /\ InitSkiplist(SklArenaSize)
    /\ sklArena = "arena"
    /\ memSeqNum \in 0..MaxSeq
    /\ references = 1
    /\ writers = 0
    /\ readOnly = FALSE
    /\ fl = NoFlush
    /\ mem = [t \in Procs |-> NoMem]
    /\ flushes = 0
    /\ handoffs = 0
    /\ decrements = 0
    /\ releases = <<>>
    /\ it = NoIterator
    /\ emitted = <<>>
    /\ NoReaders
    /\ fn = NoCall

SpecSeqNum == InitMemtableSeqNum /\ [][NextMemtable]_vars

\* The memtable and a reader that takes an Iterator without bounds from the
\* memtable's skiplist and closes it.
NextMemReader ==
    \/ NextMemtable
    \/ Iter(NoBound, NoBound)
    \/ IterClose

SpecMemReader == InitMemtable /\ [][NextMemReader]_vars

\* The memtable with the small arena, and ReleaseArena.
SpecFullRelease == InitMemtableFull /\ [][NextRelease]_vars

\* The memtable with a flush callback that walks the FlushIterator.
NextFlushIter ==
    \/ NextMemtable
    \/ FlushIterFirst
    \/ FlushIterNext

SpecFlushIter == InitMemtable /\ [][NextFlushIter]_vars

\* memtable.NewFromArena(a, cmp): a.Reset(), then a skiplist over the arena;
\* references is left at its zero value.
InitFromArena ==
    /\ InitSkiplist(SklArenaSize)
    /\ sklArena = "arena"
    /\ memSeqNum = 0
    /\ references = 0
    /\ writers = 0
    /\ readOnly = FALSE
    /\ fl = NoFlush
    /\ mem = [t \in Procs |-> NoMem]
    /\ flushes = 0
    /\ handoffs = 0
    /\ decrements = 0
    /\ releases = <<>>
    /\ it = NoIterator
    /\ emitted = <<>>
    /\ NoReaders
    /\ fn = NoCall

SpecRecycled == InitFromArena /\ [][NextRelease]_vars

\* The offsets a stale link of a recycled buffer is drawn from: those of the
\* first three nodes of the arena's previous life, which are the head, the
\* tail and the first record of the new one.
StaleOffsets ==
    LET padded == nodeSize + nodeAlignment - 1
    IN  {AlignedOffset(1 + k * padded, padded, nodeAlignment) : k \in 1..3}

\* memtable.NewFromArena(a, cmp) on an arena that was used before: a.Reset()
\* restarts the position and leaves the bytes.
InitFromUsedArena ==
    /\ \E stale \in StaleOffsets :
          /\ InitSkiplistWith(SklArenaSize, stale)
          /\ fn = [op |-> "recycled", stale |-> stale]
    /\ sklArena = "arena"
    /\ memSeqNum = 0
    /\ references = 0
    /\ writers = 0
    /\ readOnly = FALSE
    /\ fl = NoFlush
    /\ mem = [t \in Procs |-> NoMem]
    /\ flushes = 0
    /\ handoffs = 0
    /\ decrements = 0
    /\ releases = <<>>
    /\ it = NoIterator
    /\ emitted = <<>>
    /\ NoReaders

\* Writers and one reader without bounds on the recycled arena.
NextRecycledArena ==
    \/ \E t \in Procs : WriterAdd(t) \/ AddSteps(t)
    \/ Iter(NoBound, NoBound)
    \/ IterFirst
    \/ IterNext
    \/ IterLast
    \/ IterPrev
    \/ IterClose

SpecRecycledArena == InitFromUsedArena /\ [][NextRecycledArena]_vars

\* --------------------------------------------------------- Skiplist claims
\* The nodes met from n by next pointers at a level, up to tail; -1 marks a
\* walk that leaves the list (a nil link, a missing tower slot or a cycle).
RECURSIVE WalkFrom(_, _, _)
WalkFrom(n, level, fuel) ==
    IF n = tail THEN <<>>
    ELSE IF fuel = 0 \/ n \notin DOMAIN tower THEN <<-1>>
    ELSE IF level \notin DOMAIN tower[n] THEN <<-1>>
    ELSE <<n>> \o WalkFrom(tower[n][level].next, level, fuel - 1)

\* The forward traversal of a level from head.
Walk(level) == WalkFrom(tower[head][level].next, level, Cardinality(DOMAIN nodes))

\* The internal-key order: user key ascending, then trailer descending.
InternalKeyLess(a, b) ==
    \/ cmp(a.LogicalKey, b.LogicalKey) < 0
    \/ cmp(a.LogicalKey, b.LogicalKey) = 0 /\ a.Trailer > b.Trailer

Range(f) == {f[i] : i \in DOMAIN f}

Returns == BagToSet(returned)
OkCount(k) == Cardinality({r \in Returns : r.key = k /\ r.err = "nil"})
                 + Cardinality({r \in Returns : r.key = k /\ r.err = "nil" /\ returned[r] > 1})
InProgress(k) == \E t \in Procs : pc[t] # "idle" /\ add[t].key = k

\* C1: of the Add calls that carry the same (UserKey, Trailer), in any
\* interleaving, exactly one returns success and every other returns
\* ErrRecordExists, and level 0 never holds two nodes with one internal key.
C1_ExactlyOneSucceeds ==
    \A k \in Keys :
        /\ OkCount(k) <= 1
        /\ Cardinality({i \in DOMAIN Walk(0) : Walk(0)[i] # -1 /\ InternalKeyOf(Walk(0)[i]) = k}) <= 1
        /\ \A r \in Returns : r.key = k => r.err \in {"nil", "ErrRecordExists"}
        /\ ((\E r \in Returns : r.key = k) /\ ~InProgress(k)) => OkCount(k) = 1

\* Two Adds of one key raced: one returned success, the other lost the level-0
\* CAS and returned ErrRecordExists from its retry search.
C1_Witness ==
    \E k \in Keys :
        /\ \E r \in Returns : r.key = k /\ r.err = "nil"
        /\ \E r \in Returns : r.key = k /\ r.err = "ErrRecordExists" /\ r.retried

\* C2: at every level the next pointers lead from head to tail through nodes
\* in strictly increasing internal-key order.
C2_LevelsSorted ==
    \A level \in 0..(maxHeight - 1) :
        LET w == Walk(level)
        IN  /\ -1 \notin Range(w)
            /\ \A i \in 1..(Len(w) - 1) :
                   InternalKeyLess(InternalKeyOf(w[i]), InternalKeyOf(w[i + 1]))

\* Three nodes are linked at level 0, two of them also at level 1, among them
\* two of one user key, while another level is still being linked.
C2_Witness ==
    /\ Len(Walk(0)) = 3
    /\ Len(Walk(1)) = 2
    /\ \E i \in 1..2 : nodes[Walk(0)[i]].key = nodes[Walk(0)[i + 1]].key
    /\ \E t \in Procs : pc[t] = "linkCAS" /\ add[t].i = 1

\* C3: a record whose Add has returned success is met by the level-0 traversal
\* in every later state, and when no Add is in progress the level-0 traversal
\* is exactly the sorted records whose Add returned success.
C3_ReturnedIsReachable ==
    LET w == Walk(0)
        ok == {r.key : r \in {q \in Returns : q.err = "nil"}}
    IN  /\ \A k \in ok : \E i \in DOMAIN w : w[i] # -1 /\ InternalKeyOf(w[i]) = k
        /\ (\A t \in Procs : pc[t] = "idle") =>
              /\ -1 \notin Range(w)
              /\ {InternalKeyOf(n) : n \in Range(w)} = ok
              /\ Len(w) = Cardinality(ok)
              /\ \A i \in 1..(Len(w) - 1) :
                     InternalKeyLess(InternalKeyOf(w[i]), InternalKeyOf(w[i + 1]))

\* All three Adds have returned success, one of them after a CAS of its lost
\* against a concurrent Add.
C3_Witness ==
    /\ \A t \in Procs : pc[t] = "idle"
    /\ Cardinality({r \in Returns : r.err = "nil"}) = 3
    /\ \E r \in Returns : r.err = "nil" /\ r.retried

\* ------------------------------------------------------------ Arena claims

\* C7: the byte ranges [offset, offset+size) of any two successful Allocate
\* calls are disjoint, and no successful call returns offset 0.
C7_AllocationsDisjoint ==
    /\ \A a \in allocs : a.offset # 0
    /\ \A a, b \in allocs :
          a # b => (a.offset + a.size <= b.offset \/ b.offset + b.size <= a.offset)

\* Three allocations are live, made while another Allocate was in progress.
C7_Witness ==
    /\ Cardinality(allocs) >= 3
    /\ \E t \in Procs : pc[t] = "AllocateAdd"

\* C8: every successful Allocate returns an offset that is a multiple of the
\* alignment, with [offset, offset+size) inside the range [old, new) its
\* fetch-add reserved, so that offset+size never exceeds buffer - overflow.
C8_InsideReservation ==
    \A a \in allocs :
        /\ a.offset % a.alignment = 0
        /\ a.old <= a.offset
        /\ a.offset + a.size <= a.new
        /\ a.offset + a.size <= buffer - overflow

\* C9: an Allocate that returns ErrArenaFull does so with Len > Cap; once one
\* has, every Allocate that returns before the next Reset returns ErrArenaFull;
\* and the watermark decreases only by Reset.
C9_FullUntilReset ==
    [][ /\ \A t \in Procs :
            (pc'[t] = "AllocateRet" /\ pc[t] # "AllocateRet") =>
                /\ alloc'[t].err = "ErrArenaFull" => position' - 1 > buffer' - overflow' - 1
                /\ fullSeen > 0 => alloc'[t].err = "ErrArenaFull"
        /\ (position' < position => resets' = resets + 1)
        /\ (fullSeen > 0 => ArenaLen > ArenaCap) ]_vars

\* Two Allocate calls in a row have returned ErrArenaFull, the second after a
\* Reset had emptied the arena and it was filled again.
C9_Witness ==
    /\ fullSeen >= 2
    /\ resets = 1


\* --------------------------------------------------------- MemTable claims
FlushGoroutines == fl.waiting + fl.ready + fl.flushing

\* C4: however many times Flush is called, the flush callback is handed the
\* flush iterator at most once and the reference count is decremented for the
\* flush at most once; once Flush has been called there is exactly one flush
\* goroutine, which either has still to hand over the iterator or has done it
\* once, and which decrements the count once when its callback has returned.
C4_FlushOnce ==
    /\ handoffs <= 1
    /\ decrements <= 1
    /\ references = 1 - decrements
    /\ flushes >= 1 =>
         /\ readOnly
         /\ fl.waiting + fl.ready + handoffs = 1
         /\ fl.flushing + decrements = handoffs

C4_Witness ==
    /\ flushes = MaxFlushes
    /\ handoffs = 1
    /\ decrements = 1
    /\ FlushGoroutines = 0

\* A writer that cannot touch the list any more: it was counted after the
\* read-only flag was set, and is before its check of the flag or on its way
\* out with ErrMemtableFlushed.
LateWriter(t) ==
    /\ mem[t].late
    /\ pc[t] \in {"memCheck", "AddRet"}
    /\ pc[t] = "AddRet" => add[t].err = "ErrMemtableFlushed"

\* C5: the flush callback is invoked only when every writer still counted
\* entered after the read-only flag was set and fails with Flushed without
\* reaching the skiplist, and no step after the handoff of the flush iterator
\* changes a link or adds a node.
C5_WriterBarrier ==
    [][/\ handoffs' > handoffs =>
            \A t \in Procs : mem[t].op = "Add" => LateWriter(t)
       /\ handoffs >= 1 => tower' = tower /\ nodes' = nodes /\ height' = height]_vars

C5_Witness ==
    /\ handoffs >= 1
    /\ writers > 0
    /\ \E r \in BagToSet(returned) : r.err = "nil" /\ ~r.late

\* C5 as stated: the flush callback is invoked only when the inflight-writer
\* count is zero, and no node is linked after the handoff.
C5_CounterIsZero ==
    [][/\ handoffs' > handoffs => writers = 0
       /\ handoffs >= 1 => tower' = tower /\ nodes' = nodes]_vars

\* C6: an Insert that started when the read-only flag was set takes no step
\* that changes a link, a node, the list height or the arena watermark, and it
\* returns ErrMemtableFlushed.
C6_LateInsertFlushed ==
    [][\A t \in Procs :
          (mem[t].op = "Add" /\ mem[t].late /\ pc'[t] # pc[t]) =>
              /\ tower' = tower
              /\ nodes' = nodes
              /\ height' = height
              /\ position' = position
              /\ pc'[t] \in {"AddRet", "idle"}
              /\ \A r \in BagToSet(returned') : r.late => r.err = "ErrMemtableFlushed"]_vars

C6_Witness ==
    /\ \E r \in BagToSet(returned) : r.late /\ r.err = "ErrMemtableFlushed"
    /\ \E r \in BagToSet(returned) : ~r.late /\ r.err = "nil"

\* C10: a ReleaseArena call that found the memtable active returned
\* ErrMemtableActive and detached nothing, and one that found the reference
\* count zero detached the arena and returned it.
C10_ReleaseOnlyInactive ==
    \A i \in DOMAIN releases :
        IF releases[i].active
        THEN releases[i].err = "ErrMemtableActive" /\ ~releases[i].detached
        ELSE releases[i].err = "nil" /\ releases[i].detached /\ releases[i].arena = "arena"


\* C11: IsActive() is false only when the read-only transition has happened
\* and the flush callback has returned (the memtable has no operation that
\* opens an iterator, so there are no readers to account for).
C11_InactiveOnlyAfterFlush ==
    ~IsActive => readOnly /\ handoffs >= 1 /\ decrements >= 1

\* C12: the reference count is 1 from construction until the flush has
\* completed, and never wraps below zero: it is 1 or, after the flush, 0.
C12_ReferencesAtLeastOne ==
    /\ references \in {0, 1}
    /\ decrements = 0 => references >= 1


\* The nodes on the chain of a level, without head and tail.
Linked(level) == Range(Walk(level)) \ {head, tail}

\* C13: an Insert whose Skiplist.Add failed with ErrArenaFull returns
\* ErrMemtableFull, one whose Add failed with ErrRecordExists returns
\* ErrRecordExists.
C13_ArenaFullIsMemtableFull ==
    \A r \in BagToSet(returned) :
        /\ r.cause = "ErrArenaFull" => r.err = "ErrMemtableFull"
        /\ r.cause = "ErrRecordExists" => r.err = "ErrRecordExists"

C15_FullTriggersReadOnly ==
    (\E r \in BagToSet(returned) : r.cause = "ErrArenaFull") =>
        readOnly /\ FlushGoroutines + decrements = 1


\* C16: the node of an Insert that returned an error, or is returning one, is
\* on the chain of no level, and every node on a chain is the node of an
\* Insert that returned nil or of one still in progress.
C16_FailedAddLinksNothing ==
    \A level \in 0..(maxHeight - 1) :
        /\ \A r \in BagToSet(returned) : r.err # "nil" => r.nd \notin Linked(level)
        /\ \A t \in Procs :
              (pc[t] = "AddRet" /\ add[t].err # "nil") => add[t].nd \notin Linked(level)
        /\ \A n \in Linked(level) :
              \/ \E r \in BagToSet(returned) : r.err = "nil" /\ r.nd = n
              \/ \E t \in Procs : pc[t] # "idle" /\ add[t].nd = n

\* An Insert returned ErrRecordExists that it found on the retry after a
\* failed level-0 CAS, with its node already allocated.
C16_Witness ==
    /\ \E r \in BagToSet(returned) :
          r.err = "ErrRecordExists" /\ r.retried /\ r.nd # 0


RECURSIVE WalkBackFrom(_, _, _)
WalkBackFrom(n, level, fuel) ==
    IF n = head THEN <<>>
    ELSE IF fuel = 0 \/ n \notin DOMAIN tower THEN <<-1>>
    ELSE IF level \notin DOMAIN tower[n] THEN <<-1>>
    ELSE <<n>> \o WalkBackFrom(tower[n][level].prev, level, fuel - 1)

\* The backward traversal of a level from tail.
WalkBack(level) == WalkBackFrom(tower[tail][level].prev, level, Cardinality(DOMAIN nodes))

Reverse(w) == [i \in 1..Len(w) |-> w[Len(w) + 1 - i]]

\* C17: when no Add is in progress, at every level each node's back link is
\* the node whose forward link points to it, from head to tail, so the
\* backward traversal from tail is the reverse of the forward traversal.
C17_BackLinksMirror ==
    (\A t \in Procs : pc[t] = "idle") =>
        \A level \in 0..(maxHeight - 1) :
            LET chain == <<head>> \o Walk(level) \o <<tail>>
            IN  /\ \A i \in 1..(Len(chain) - 1) :
                       prevOffset(chain[i + 1], level) = chain[i]
                /\ WalkBack(level) = Reverse(Walk(level))

\* All Adds have returned, three nodes are linked, and an Add that succeeded
\* had its final CAS of a back link fail.
C17_Witness ==
    /\ \A t \in Procs : pc[t] = "idle"
    /\ Len(Walk(0)) = 3
    /\ \E r \in Returns : r.err = "nil" /\ r.backFailed


\* C18: with Adds issued through reused Inserters the list is what fresh
\* Inserters give: every level is in strictly increasing internal-key order,
\* so no key has a second node, and at most one Add of a key returns nil.
C18_ReusedInserterNoDuplicate ==
    /\ \A level \in 0..(maxHeight - 1) :
          LET w == Walk(level)
          IN  \A i \in 1..(Len(w) - 1) :
                  InternalKeyLess(InternalKeyOf(w[i]), InternalKeyOf(w[i + 1]))
    /\ \A k \in Keys : OkCount(k) <= 1


\* C19: a FlushIterator walked from First by Next to exhaustion has returned
\* the records of level 0 in order, each once, each key with the value of its
\* own record.
C19_FlushIteratorPairs ==
    it.state = "done" =>
        emitted = [i \in 1..Len(Walk(0)) |->
                      [K |-> InternalKeyOf(Walk(0)[i]), V |-> nodes[Walk(0)[i]].value]]


\* C20: once ReleaseArena has been called on a memtable whose reference count
\* was zero, the arena is detached, Size() and Cap() are 0 and Empty() is true.
C20_ReleasedIsEmpty ==
    (\E i \in DOMAIN releases : ~releases[i].active) =>
        /\ sklArena = "nil"
        /\ Size = 0
        /\ Cap = 0
        /\ Empty


C22_EmptyIffNoSuccess ==
    (\A t \in Procs : pc[t] = "idle") =>
        (Empty <=> \A r \in BagToSet(returned) : r.err # "nil")


C24_TrailerRoundTrip ==
    fn.op = "SeqNumKind" => fn.seqNumOut = fn.seqNum /\ fn.kindOut = fn.kind

\* The largest sequence number and the largest kind have made the round trip.
C24_Witness ==
    /\ fn.op = "SeqNumKind"
    /\ fn.seqNum = 2^(UintBits - 8) - 1
    /\ fn.kind = 255
    /\ fn.seqNumOut = fn.seqNum
    /\ fn.kindOut = fn.kind


\* The keys a finished pass returned.
PassKeys == {pass.kvs[i].K : i \in DOMAIN pass.kvs}

\* The records of a sequence of nodes that are inside the bounds of a pass in
\* its direction.
RECURSIVE InRange(_)
InRange(w) ==
    IF w = <<>> THEN <<>>
    ELSE LET k == InternalKeyOf(Head(w))
             inside == IF pass.dir = "forward"
                       THEN ~pass.upper.set \/ cmp(k.LogicalKey, pass.upper.key) < 0
                       ELSE ~pass.lower.set \/ cmp(k.LogicalKey, pass.lower.key) >= 0
         IN  (IF inside THEN <<[K |-> k, V |-> nodes[Head(w)].value]>> ELSE <<>>)
             \o InRange(Tail(w))

\* No Add was in progress at any time of the reader's pass.
QuietPass ==
    /\ pass.idle
    /\ \A t \in Procs : pc[t] = "idle"
    /\ pass.calls = BagCardinality(returned)

\* What holds of every finished pass, whatever the writers do: the records it
\* returned are linked at level 0, in the order of the direction and inside
\* the bound.
PassIsSound ==
    /\ \A i \in DOMAIN pass.kvs :
          \E n \in Range(Walk(0)) :
              n # -1 /\ InternalKeyOf(n) = pass.kvs[i].K /\ nodes[n].value = pass.kvs[i].V
    /\ IF pass.dir = "forward"
       THEN /\ \A i, j \in DOMAIN pass.kvs :
                  i < j => InternalKeyLess(pass.kvs[i].K, pass.kvs[j].K)
            /\ \A k \in PassKeys :
                  pass.upper.set => cmp(k.LogicalKey, pass.upper.key) < 0
       ELSE /\ \A i, j \in DOMAIN pass.kvs :
                  i < j => InternalKeyLess(pass.kvs[j].K, pass.kvs[i].K)
            /\ \A k \in PassKeys :
                  pass.lower.set => cmp(k.LogicalKey, pass.lower.key) >= 0

\* No record that an Add had inserted before the pass began, and that is
\* inside the bound, is missing from what the pass returned.
PassIsComplete ==
    \A k \in pass.before :
        (IF pass.dir = "forward"
         THEN ~pass.upper.set \/ cmp(k.LogicalKey, pass.upper.key) < 0
         ELSE ~pass.lower.set \/ cmp(k.LogicalKey, pass.lower.key) >= 0) => k \in PassKeys

\* C26 as stated: every finished pass, forward or reverse, with or without
\* concurrent Adds, returned in order the records inside its bound, none
\* missing.
C26_PassReturnsRange ==
    pass.ended => PassIsSound /\ PassIsComplete

\* C26, amended: every finished pass returned records that are linked, in
\* order and inside the bound; a forward pass missed no record inserted before
\* it began; a pass during which no Add was in progress returned exactly the
\* records inside its bound (none on an empty list or an excluded range); and
\* the memoised upperNode has only records at or above the upper bound from
\* it on, the memoised lowerNode only records below the lower bound before it.
C26_PassReturnsRangeWhenQuiet ==
    /\ pass.ended =>
          /\ PassIsSound
          /\ pass.dir = "forward" => PassIsComplete
          /\ QuietPass =>
                pass.kvs = InRange(IF pass.dir = "forward" THEN Walk(0)
                                   ELSE Reverse(Walk(0)))
    /\ rd.upperNode # 0 =>
          \A n \in Range(WalkFrom(rd.upperNode, 0, Cardinality(DOMAIN nodes))) :
              n # -1 /\ cmp(rd.upper.key, nodes[n].key) <= 0
    /\ rd.lowerNode # 0 =>
          \A n \in Range(Walk(0)) :
              (n = -1 \/ ~InternalKeyLess(InternalKeyOf(rd.lowerNode), InternalKeyOf(n)))
                  => n # -1 /\ cmp(rd.lower.key, nodes[n].key) > 0

\* A second pass, made with no Add in progress, stopped at the memoised node
\* of its bound after returning a record.
C26_Witness ==
    /\ pass.ended
    /\ QuietPass
    /\ pass.count = 2
    /\ pass.kvs # <<>>
    /\ \/ pass.dir = "forward" /\ rd.upperNode # 0 /\ rd.nd = rd.upperNode
       \/ pass.dir = "reverse" /\ rd.lowerNode # 0 /\ rd.nd = rd.lowerNode


\* The Iterators that have been made and not closed.
OpenIterators == IF rd.state \in {"open", "valid", "exhausted"} THEN 1 ELSE 0

\* C25: until the flush has completed, the reference count is the number of
\* open iterators plus one: making an Iterator has incremented it and closing
\* the Iterator has decremented it once.
C25_ReferencesCountIterators ==
    decrements = 0 => references = OpenIterators + 1


\* C27: the writer counter is the number of Add calls in progress, whatever
\* way each of them returns, and once the read-only flag is set the flush
\* callback is eventually handed the flush iterator and the reference of the
\* active memtable is eventually given up.
C27_FlushEventuallyCompletes ==
    /\ [](writers = Cardinality({t \in Procs : mem[t].op = "Add"}))
    /\ readOnly ~> (handoffs = 1)
    /\ (handoffs = 1) ~> (decrements = 1 /\ references = 0)

\* The flush has completed after one Add was inserted and another was turned
\* away with ErrMemtableFlushed.
C27_Witness ==
    /\ decrements = 1
    /\ writers = 0
    /\ \E r \in BagToSet(returned) : r.err = "nil"
    /\ \E r \in BagToSet(returned) : r.err = "ErrMemtableFlushed"


\* C28: the read-only flag never goes back to false, and once the flush has
\* completed no Add is inserted any more (an Add in progress is on its way
\* out with ErrMemtableFlushed, no node or link changes) and no flush
\* goroutine exists or is started.
C28_LifecycleOneWay ==
    [][/\ readOnly => readOnly'
       /\ decrements >= 1 =>
            /\ nodes' = nodes /\ tower' = tower /\ height' = height
            /\ \A r \in BagToSet(returned') :
                  CopiesIn(r, returned') > CopiesIn(r, returned) => r.err # "nil"
            /\ fl' = NoFlush
            /\ handoffs' = handoffs
            /\ decrements' = decrements]_vars

\* After the flush completed, an Add was turned away and Flush was called
\* again.
C28_Witness ==
    /\ decrements = 1
    /\ flushes = MaxFlushes
    /\ \E r \in BagToSet(returned) : r.late /\ r.err = "ErrMemtableFlushed"
    /\ \E t \in Procs : mem[t].op = "Add" /\ pc[t] = "memCheck"


\* C29: a newNode call that did not fail with ErrArenaFull returned a node
\* whose whole struct, unallocated tower slots included, and whose key and
\* value bytes lie inside the arena's buffer.
C29_NodeInsideBuffer ==
    (fn.op = "newNode" /\ fn.err = "nil") =>
        /\ fn.offset + maxNodeSize <= fn.len
        /\ fn.keyOffset + fn.keySize + fn.valueSize <= fn.len


\* A step of findSplice's loop over the cached splices in which goroutine t
\* takes the splice of its level as bracketing the key ("prev = spl.prev").
CachedSpliceTaken(t) ==
    /\ pc[t] = "findSpliceCached"
    /\ add[t].level < add[t].ins.height
    /\ pc'[t] \notin {"findSpliceCached", "panic"}
    /\ \/ pc'[t] # "findSpliceForLevel"
       \/ add'[t].level = add[t].level - 1

\* C30: findSplice takes a cached splice only if prev.next[level] is still
\* next, prev is head or the key is strictly after prev, and next is tail or
\* the key is strictly before next; a key equal to the cached next node is
\* never taken as bracketed.
C30_CachedSpliceBracketsStrictly ==
    [][\A t \in Procs :
          CachedSpliceTaken(t) =>
              LET spl == add[t].ins.spl[add[t].level]
              IN  /\ nextOffset(spl.prev, add[t].level) = spl.next
                  /\ \/ spl.prev = head
                     \/ InternalKeyLess(InternalKeyOf(spl.prev), add[t].key)
                  /\ \/ spl.next = tail
                     \/ InternalKeyLess(add[t].key, InternalKeyOf(spl.next))]_vars


\* C31: no Add reaches the panic of a retry search that finds the key at a
\* level above the base, nor the panic of a splice with a nil prev and a next
\* that is not nil.
C31_NoInvariantPanic ==
    \A t \in Procs : add[t].err \notin {"panicNonBaseLevel", "panicNextNotNil"}


\* Every link that has been stored is in key order: a back link points to head
\* or to a node with a strictly smaller key, a forward link to tail or to a
\* node with a strictly larger key; only a node that is not linked into a
\* level of the list has links of that level that were never stored.
LinksOrdered ==
    \A n \in DOMAIN tower : \A i \in DOMAIN tower[n] :
        LET p == tower[n][i].prev
            q == tower[n][i].next
            unlinked == n \notin Range(Walk(i))
        IN  /\ n # head =>
                 \/ p = 0 /\ unlinked
                 \/ p = head
                 \/ /\ p \in DOMAIN nodes \ {head, tail}
                    /\ n = tail \/ InternalKeyLess(InternalKeyOf(p), InternalKeyOf(n))
            /\ n # tail =>
                 \/ q = 0 /\ unlinked
                 \/ q = tail
                 \/ /\ q \in DOMAIN nodes \ {head, tail}
                    /\ n = head \/ InternalKeyLess(InternalKeyOf(n), InternalKeyOf(q))

\* The back links of level 0 lead from tail to head through strictly
\* decreasing keys.
BackWalkDescends ==
    LET w == WalkBack(0)
    IN  /\ -1 \notin Range(w)
        /\ \A i, j \in DOMAIN w :
               i < j => InternalKeyLess(InternalKeyOf(w[j]), InternalKeyOf(w[i]))

\* A finished reverse pass without a lower bound returned strictly decreasing
\* keys.
ReversePassDescends ==
    (pass.ended /\ pass.dir = "reverse") =>
        \A i, j \in DOMAIN pass.kvs :
            i < j => InternalKeyLess(pass.kvs[j].K, pass.kvs[i].K)

\* C32 as stated: links are in key order in every state, a Prev walk from tail
\* descends to head, and it returns every record whose Add had returned before
\* it started.
C32_PrevWalkSeesReturned ==
    /\ LinksOrdered
    /\ BackWalkDescends
    /\ ReversePassDescends
    /\ (pass.ended /\ pass.dir = "reverse" /\ ~pass.lower.set) =>
          pass.before \subseteq PassKeys

\* C32, amended: links are in key order in every state, a Prev walk from tail
\* descends to head, and a walk that started while no Add was in progress
\* returns every record whose Add had returned before it started.
C32_PrevWalkSeesReturnedWhenIdle ==
    /\ LinksOrdered
    /\ BackWalkDescends
    /\ ReversePassDescends
    /\ (pass.ended /\ pass.dir = "reverse" /\ ~pass.lower.set /\ pass.idle) =>
          pass.before \subseteq PassKeys

\* A reverse pass that started with no Add in progress has ended; it returned
\* the record inserted before it and missed one linked while it ran.
C32_Witness ==
    /\ pass.ended /\ pass.dir = "reverse" /\ ~pass.lower.set /\ pass.idle
    /\ pass.before # {}
    /\ pass.before \subseteq PassKeys
    /\ \E n \in Range(Walk(0)) : n # -1 /\ InternalKeyOf(n) \notin PassKeys


\* C33: the list height is always in 1..maxHeight and at least the tower
\* height of every linked node; it changes only upwards, and only by the CAS
\* of an Add whose node was allocated, so never by an Add that fails with
\* ErrArenaFull.
C33_HeightOnlyGrows ==
    /\ [](/\ height \in 1..maxHeight
          /\ \A level \in 0..(maxHeight - 1) : \A n \in Range(Walk(level)) :
                 n # -1 /\ nodes[n].height <= height)
    /\ [][height' # height =>
             \E t \in Procs :
                 /\ pc[t] = "heightCAS"
                 /\ add[t].nd \in DOMAIN nodes
                 /\ alloc[t].err # "ErrArenaFull"
                 /\ height' = add[t].height
                 /\ height' > height]_vars

\* The list height has been raised by one Add while another Add failed with
\* ErrArenaFull.
C33_Witness ==
    /\ height > 1
    /\ \E n \in Range(Walk(0)) : n # -1 /\ nodes[n].height = height
    /\ \E r \in BagToSet(returned) : r.cause = "ErrArenaFull"


\* C34: the node of every Add that has returned nil is on the chain of next
\* pointers from head at each level below its tower height and at no level
\* from its tower height up.
C34_LinkedAtItsLevelsOnly ==
    \A r \in Returns :
        r.err = "nil" =>
            \E n \in DOMAIN nodes \ {head, tail} :
                /\ InternalKeyOf(n) = r.key
                /\ \A level \in 0..(maxHeight - 1) :
                       n \in Range(Walk(level)) <=> level < nodes[n].height

\* All Adds have returned; a node of height 1 is linked at level 0 between two
\* nodes of height 2 that follow one another at level 1.
C34_Witness ==
    /\ \A t \in Procs : pc[t] = "idle"
    /\ Len(Walk(0)) = 3
    /\ Len(Walk(1)) = 2
    /\ Walk(1) = <<Walk(0)[1], Walk(0)[3]>>
    /\ nodes[Walk(0)[2]].height = 1
    /\ \A n \in Range(Walk(0)) : \E r \in Returns : r.err = "nil" /\ r.key = InternalKeyOf(n)


\* A step in which the CAS of prev.next by goroutine t fails: the link holds a
\* node that another Add has linked between prev and next since t searched.
CASFailsBehindAnother(t) ==
    (pc[t] = "linkCAS" /\ pc'[t] = "findSpliceForLevel") =>
        LET f == add[t]
            m == nextOffset(f.prev, f.i)
        IN  /\ m \in DOMAIN nodes \ {head, tail, f.nd, f.next}
            /\ InternalKeyLess(InternalKeyOf(f.prev), InternalKeyOf(m)) \/ f.prev = head
            /\ f.next = tail \/ f.next \in Range(WalkFrom(m, f.i, Cardinality(DOMAIN nodes)))

\* After a search made again from the old prev, the splice goroutine t links
\* its node into brackets the key, or ends at tail.
RetrySearchBrackets(t) ==
    (pc[t] = "link" /\ add[t].retry) =>
        LET f == add[t]
        IN  /\ f.prev = head \/ InternalKeyLess(InternalKeyOf(f.prev), f.key)
            /\ f.next = tail \/ InternalKeyLess(f.key, InternalKeyOf(f.next))
            /\ f.prev # tail /\ f.next # head

\* C35: under a fair scheduler every Add that has been called returns; a CAS
\* of a level fails only behind the CAS of another Add on the same link, and
\* the search made again from the old prev ends at a bracketing pair or at
\* tail.
C35_EveryAddReturns ==
    /\ \A t \in Procs : (pc[t] # "idle") ~> (pc[t] = "idle")
    /\ [][\A t \in Procs : CASFailsBehindAnother(t)]_vars
    /\ [](\A t \in Procs : RetrySearchBrackets(t))

\* An Add whose CAS had failed, and that searched its level again, has
\* returned nil.
C35_Witness ==
    /\ \A t \in Procs : pc[t] = "idle"
    /\ \E r \in Returns : r.err = "nil" /\ r.retried


\* C36: for sequence numbers that leave room for the kind byte,
\* MakeTrailer(s1, k1) > MakeTrailer(s2, k2) as unsigned integers iff s1 > s2,
\* or s1 = s2 and k1 > k2; and that is when findSpliceForLevel places a key
\* with the first trailer before a node with the second at equal user keys.
C36_TrailerOrder ==
    fn.op = "compare" =>
        LET newer == fn.s1 > fn.s2 \/ (fn.s1 = fn.s2 /\ fn.k1 > fn.k2)
        IN  /\ fn.t1 > fn.t2 <=> newer
            /\ fn.before <=> newer

\* A larger sequence number with the smallest kind was compared with a smaller
\* sequence number with the largest kind, and sorts first.
C36_Witness ==
    /\ fn.op = "compare"
    /\ fn.s1 = fn.s2 + 1
    /\ fn.k1 = 0
    /\ fn.k2 = 255
    /\ fn.before


\* C37: a skiplist built on a recycled arena, whatever its buffer holds, is
\* what one built on a fresh arena is.  Before the first Add the position is
\* that of a fresh skiplist, every level is head <-> tail, the height is 1 and
\* Empty() is true.  Afterwards every level is a chain from head to tail in
\* strictly increasing key order, mirrored by the back links when no Add is
\* in progress; an Add returns nil for a key not yet inserted and
\* ErrRecordExists otherwise; and a pass made with no Add in progress returns
\* the records of level 0 in order.
C37_RecycledAsFresh ==
    /\ Started = 0 =>
          /\ position = 1 + minimumBytes
          /\ height = 1
          /\ Empty
          /\ \A level \in 0..(maxHeight - 1) :
                 nextOffset(head, level) = tail /\ prevOffset(tail, level) = head
    /\ \A t \in Procs : pc[t] # "panic"
    /\ \A level \in 0..(maxHeight - 1) :
          LET w == Walk(level)
          IN  /\ -1 \notin Range(w)
              /\ \A i \in 1..(Len(w) - 1) :
                     InternalKeyLess(InternalKeyOf(w[i]), InternalKeyOf(w[i + 1]))
              /\ (\A t \in Procs : pc[t] = "idle") => WalkBack(level) = Reverse(w)
    /\ \A r \in Returns : r.err \in {"nil", "ErrRecordExists"}
    /\ \A k \in Keys : OkCount(k) <= 1
    /\ (\A t \in Procs : pc[t] = "idle") =>
          {InternalKeyOf(n) : n \in Range(Walk(0))} = {r.key : r \in Returns}
    /\ (pass.ended /\ QuietPass) =>
          pass.kvs = InRange(IF pass.dir = "forward" THEN Walk(0) ELSE Reverse(Walk(0)))

\* On a recycled arena two Adds have returned nil, one of them with a node of
\* height 2, and a reverse pass made with no Add in progress has returned both
\* records.
C37_Witness ==
    /\ fn.op = "recycled"
    /\ Len(Walk(0)) = 2
    /\ Len(Walk(1)) >= 1
    /\ pass.ended /\ QuietPass /\ pass.dir = "reverse"
    /\ Len(pass.kvs) = 2


\* ---------------------------------------------------------------------- DB
\* base.InternalKeyKindDelete.
InternalKeyKindDelete == 0

\* No Set or Delete call is in progress in a goroutine.
NoDBCall == [state |-> "none", key |-> <<>>, kind |-> 0, seqNum |-> 0, tries |-> 0]

\* db.Open: "db.memtable = memtable.New(db.wal)" and the zero seqNum.  The
\* memtable's arena has room for two records.
InitDB ==
    /\ InitSkiplist(FullArenaSize)
    /\ sklArena = "arena"
    /\ memSeqNum = 0
    /\ references = 1
    /\ writers = 0
    /\ readOnly = FALSE
    /\ fl = NoFlush
    /\ mem = [t \in Procs |-> NoMem]
    /\ flushes = 0
    /\ handoffs = 0
    /\ decrements = 0
    /\ releases = <<>>
    /\ it = NoIterator
    /\ emitted = <<>>
    /\ NoReaders
    /\ fn = [op |-> "db", seqNum |-> 0, call |-> [t \in Procs |-> NoDBCall], done |-> <<>>]

\* Set and Delete calls made so far.
DBCallsStarted ==
    Len(fn.done) + Cardinality({t \in Procs : fn.call[t].state # "none"})

\* DB.Set(key, value) for kind Set and DB.Delete(key) for kind Delete, entered
\* by a client or by the call's own "return db.Set(key, value)": the key made
\* from db.seqNum.Load(), and the call of the memtable up to writers.Add(1).
DBWrite(t, kind) ==
    /\ pc[t] = "idle"
    /\ fn.op = "db"
    /\ \E key \in UserKeys :
         /\ IF fn.call[t].state = "retry"
            THEN key = fn.call[t].key /\ kind = fn.call[t].kind
            ELSE DBCallsStarted < MaxDBCalls
         /\ add' = [add EXCEPT ![t] =
                      [NoAdd EXCEPT !.key = [LogicalKey |-> key,
                                             Trailer |-> MakeTrailer(fn.seqNum, kind)],
                                    !.value = IF kind = InternalKeyKindSet THEN <<1>> ELSE <<>>,
                                    !.caller = "memtable"]]
         /\ fn' = [fn EXCEPT !.call[t] = [state |-> "insert", key |-> key, kind |-> kind,
                                          seqNum |-> fn.seqNum,
                                          tries |-> fn.call[t].tries + 1]]
    /\ writers' = writers + 1
    /\ mem' = [mem EXCEPT ![t] = [NoMem EXCEPT !.op = "Add", !.late = readOnly]]
    /\ pc' = [pc EXCEPT ![t] = "memCheck"]
    /\ UNCHANGED <<arenaVars, sklVars, ops, alloc, returned, histVars, sklArena, memSeqNum,
                   references, readOnly, fl, flushes, handoffs, decrements, releases>>
    /\ UNCHANGED <<iterVars, readerVars>>

\* What Set and Delete do with the error of the memtable: "return", "retry"
\* or "panic".
DBOutcome(err) ==
    IF err = "nil" THEN [do |-> "return", err |-> "nil"]
    ELSE IF err = "ErrMemtableFlushed" THEN [do |-> "return", err |-> "nil"]
    ELSE IF err = "ErrRecordExists" THEN [do |-> "retry", err |-> err]
    ELSE IF err = "ErrInvalidSeqNum" THEN [do |-> "panic", err |-> err]
    ELSE [do |-> "return", err |-> err]

\* The memtable returns to Set or Delete, which returns, panics, or adds one
\* to db.seqNum before it calls itself.
DBInsertReturn(t) ==
    /\ fn.op = "db"
    /\ MemAddDone(t)
    /\ LET c == fn.call[t]
           out == DBOutcome(MemErr(add[t].err))
           rec == [key |-> c.key, kind |-> c.kind, seqNum |-> c.seqNum, tries |-> c.tries,
                   result |-> IF out.do = "panic" THEN "panic" ELSE out.err,
                   memErr |-> MemErr(add[t].err)]
       IN  IF out.do = "retry"
           THEN fn' = [fn EXCEPT !.seqNum = (fn.seqNum + 1) % 2^(UintBits - 8),
                                 !.call[t].state = "retry"]
           ELSE fn' = [fn EXCEPT !.call[t] = NoDBCall, !.done = Append(fn.done, rec)]

NextDB ==
    \E t \in Procs :
        \/ DBWrite(t, InternalKeyKindSet)
        \/ DBWrite(t, InternalKeyKindDelete)
        \/ MemAddCheck(t)
        \/ SkiplistAdd(t)
        \/ AddSteps(t)
        \/ DBInsertReturn(t)

SpecDB == InitDB /\ [][NextDB]_vars

\* The records of one user key, kind and sequence number on the chain of
\* level 0.
DBLinked(key, kind, seqNum) ==
    {n \in Linked(0) : /\ nodes[n].key = key
                       /\ nodes[n].keyTrailer = MakeTrailer(seqNum, kind)}

\* C38: a Set or Delete call that returned nil left its record, under the
\* sequence number of its last attempt, in the memtable, and a call about to
\* try again finds a larger sequence number than the one it tried before.
C38_NilOnlyIfInserted ==
    /\ \A i \in DOMAIN fn.done :
          fn.done[i].result = "nil"
                => DBLinked(fn.done[i].key, fn.done[i].kind, fn.done[i].seqNum) # {}
    /\ \A t \in Procs :
          fn.call[t].state = "retry" => fn.seqNum > fn.call[t].seqNum


\* ------------------------------------------------------------ memtable.New
\* directio.BlockSize.
BlockSize == 4096

\* memtable.New: the size it gives to arena.NewArena.  Below one block it is
\* one block; otherwise "rem := size % directio.BlockSize" is taken off.
NewArenaSize(size) ==
    IF size < BlockSize
    THEN BlockSize
    ELSE LET rem == size % BlockSize
         IN  IF rem # 0 THEN size - rem ELSE size

\* A caller holds the size it is about to ask for.
InitNewSize ==
    /\ InitSkiplist(SklArenaSize)
    /\ NoMemTable
    /\ fn \in {[op |-> "input", size |-> size, arena |-> 0] : size \in 0..(MaxBlocks * BlockSize)}

\* memtable.New(size, wal, cmp) up to its call of arena.NewArena.
CallNew ==
    /\ fn.op = "input"
    /\ fn' = [fn EXCEPT !.op = "New", !.arena = NewArenaSize(fn.size)]
    /\ UNCHANGED <<arenaVars, sklVars, pc, ops, alloc, add, returned, histVars, memVars,
                   iterVars, readerVars>>

SpecNew == InitNewSize /\ [][CallNew]_vars

\* C39: the size New gives to the arena is a multiple of BlockSize, at least
\* BlockSize and at least the size that was asked for.
C39_RoundsUp ==
    fn.op = "New" => /\ fn.arena % BlockSize = 0
                     /\ fn.arena >= BlockSize
                     /\ fn.arena >= fn.size


\* C40: of the ReleaseArena calls on one memtable, sequential or concurrent,
\* at most one has returned the arena.
C40_ArenaHandedOutOnce ==
    Cardinality({i \in DOMAIN releases : releases[i].arena = "arena"}) <= 1

====
